---------------------------- MODULE Spec2Model ----------------------------
(***************************************************************************)
(* A model of one replica's RoundManager (consensus/src/round_manager.rs)  *)
(* driven by an environment that delivers proposals, votes, sync infos,    *)
(* local round timeouts, block-retrieval requests and restarts.            *)
(*                                                                         *)
(* Every handler of RoundManager is one atomic action: the manager handles *)
(* one event at a time.  A handler is a pure operator from the replica     *)
(* state and the event to the new replica state; the calls that may fail   *)
(* (the `?` and `ensure!` of the source) return records with an `ok` flag. *)
(* The collaborators whose code is not in round_manager.rs (RoundState,    *)
(* BlockStore, SafetyRules, ProposerElection, ProposalGenerator) are       *)
(* modelled from the specification's description of them.                  *)
(***************************************************************************)
EXTENDS Integers, Sequences, FiniteSets, TLC

\* ------------------------------------------------------------------ bounds
\* Highest round for which the environment produces certificates and the
\* votes that make them, and whose timer fires.  The replica can reach
\* round MaxRound + 1: proposals and votes of that round are delivered, but
\* the round is never certified.
MaxRound == 1
\* A vote is delivered only while its round is at most VoteWindow rounds
\* behind the replica's current round (bounded message delay).
VoteWindow == 0
MaxNumBlocks == 2
MaxFaults == 1
MaxRestarts == 1

None == "None"

\* ------------------------------------------------------------- validators
\* Four validators of equal voting power: f = 1, quorum 2f + 1 = 3.
Validators == <<"v1", "v2", "v3", "v4">>
Authors == {Validators[i] : i \in 1..Len(Validators)}
\* The replica under study.
Self == "v3"
\* ValidatorVerifier's quorum voting power: 2f + 1 with f = (n - 1) div 3.
QuorumSize == 2 * ((Len(Validators) - 1) \div 3) + 1

Max(a, b) == IF a >= b THEN a ELSE b

\* ----------------------------------------------------------------- blocks
\* A block id is a function of the block's fields: its round, its kind
\* (a proposal "P" or a NIL block) and its parent.  At most one block per
\* round can be certified (quorum intersection with f Byzantine validators),
\* and a block carries the certificate of its parent, so a parent is the
\* certified block of its round: the block names it by that round.
Genesis == [round |-> 0, kind |-> "G", pround |-> 0]
\* The block of round r that can gather a quorum: the leader's proposal on
\* the certified block of round r - 1.
ChainBlock(r) == IF r = 0 THEN Genesis ELSE [round |-> r, kind |-> "P", pround |-> r - 1]
Chain == {ChainBlock(r) : r \in 0..MaxRound}
Blocks ==
    {Genesis} \cup
    {b \in [round : 1..(MaxRound + 1), kind : {"P", "NIL"}, pround : 0..MaxRound] :
        b.pround < b.round}
ParentOf(b) == ChainBlock(b.pround)
\* The chain of ancestors of b, b included, down to genesis.
RECURSIVE Ancestors(_)
Ancestors(b) == IF b = Genesis THEN {Genesis} ELSE {b} \cup Ancestors(ParentOf(b))

\* ------------------------------------------------------ proposer election
\* ProposerElection::get_valid_proposer: a rotating proposer, one per round.
LeaderFor(round) == Validators[(round % Len(Validators)) + 1]
IsValidProposer(author, round) == LeaderFor(round) = author
\* ProposerElection::is_valid_proposal: the proposal's author leads its round.
IsValidProposal(msg) == IsValidProposer(msg.author, msg.block.round)

\* ------------------------------------------------------------- sync info
\* SyncInfo: highest quorum cert (the certified block), highest commit cert
\* (its round: the 3-chain rule on the certified chain) and an optional
\* highest timeout certificate (its round, 0 when there is none: round 0 is
\* genesis and never times out), kept only when it is not below the highest
\* quorum cert.
CommitRound(hqc) == IF hqc.round >= 3 THEN hqc.round - 2 ELSE 0
MkSyncInfo(hqc, htc) ==
    [hqc |-> hqc,
     hcc |-> CommitRound(hqc),
     htc |-> IF htc >= hqc.round THEN htc ELSE 0]
TcRound(si) == si.htc
\* SyncInfo::highest_round
HighestRound(si) == Max(si.hqc.round, TcRound(si))
\* SyncInfo::has_newer_certificates
HasNewerCertificates(a, b) ==
    \/ a.hqc.round > b.hqc.round
    \/ TcRound(a) > TcRound(b)
    \/ a.hcc > b.hcc
\* The sync infos the environment can send.
SyncInfos ==
    {MkSyncInfo(ChainBlock(q), t) : q \in 0..MaxRound, t \in 0..MaxRound}

\* ------------------------------------------------------------------ state
\* rm: the replica.  Its fields:
\*   author     ProposalGenerator::author: the validator the replica is
\*   cur        RoundState.current_round
\*   vote_sent  RoundState.vote_sent: NoVote or a vote
\*   pending    RoundState.pending_votes: the votes received in this round
\*   blocks     BlockStore: the executed blocks
\*   qcs        BlockStore: the blocks that have a quorum certificate
\*   hqc        BlockStore: the block of the highest quorum certificate
\*   htc        BlockStore: the round of the highest timeout certificate, or 0
\*   lvr, pr    SafetyRules: last_voted_round, preferred_round (persistent)
\*   lpr        ProposalGenerator.last_proposed_round
\*   saved      PersistentLivenessStorage: the last vote saved by save_vote
\*   signed     history: the votes construct_and_sign_vote has produced
\*   proposed   history: the blocks broadcast as proposals
\*   log        the calls made by the handler that is running, in order
\* last: of the last event handled, the handler's error (None when it
\* returned Ok) and whether it sent its sync info back to the peer.
\* env: the number of failures and of restarts that have happened.
VARIABLES rm, last, env
vars == <<rm, last, env>>

\* A vote: its author, the proposed block of its vote data, and whether it
\* carries a timeout signature.
MkVote(author, block, timeout) == [author |-> author, block |-> block, timeout |-> timeout]
\* The absent block (an id no store holds) and the absent vote.
NoBlock == [round |-> 0 - 1, kind |-> "none", pround |-> 0 - 1]
NoVote == MkVote("none", NoBlock, FALSE)
NoEvent == [round |-> 0, reason |-> "none"]

Log(st, entry) == [st EXCEPT !.log = Append(@, entry)]
Ok(st) == [ok |-> TRUE, st |-> st, err |-> None]
Err(st, why) == [ok |-> FALSE, st |-> st, err |-> why]
\* The element of a singleton.  The({F(x) : x \in {e}}) is F(e) with e
\* computed once: the result of a call is bound before it is read.
The(S) == CHOOSE x \in S : TRUE

\* ------------------------------------------------------------- RoundState
\* process_certificates that takes the round of the timeout certificate for
\* the new round and moves to whatever round it computes.
RS_ProcessCertificates_Rewind(st, si) ==
    LET new_round == IF si.htc > 0 THEN si.htc ELSE 1 + si.hqc.round
    IN  IF new_round # st.cur
        THEN [st |-> [st EXCEPT !.cur = new_round, !.vote_sent = NoVote, !.pending = {}],
              event |-> [round |-> new_round,
                         reason |-> IF si.htc > 0 THEN "Timeout" ELSE "QCReady"]]
        ELSE [st |-> st, event |-> NoEvent]

\* RoundState::process_certificates: a new round starts when the
\* certificates are ahead of the current round; the vote sent and the
\* pending votes are reset.
RS_ProcessCertificates(st, si) ==
    LET new_round == 1 + HighestRound(si)
    IN  IF new_round > st.cur
        THEN [st |-> [st EXCEPT !.cur = new_round, !.vote_sent = NoVote, !.pending = {}],
              event |-> [round |-> new_round,
                         reason |-> IF si.htc > 0 /\ si.htc + 1 = new_round
                                    THEN "Timeout" ELSE "QCReady"]]
        ELSE [st |-> st, event |-> NoEvent]

\* RoundState::process_local_timeout: true iff the timer is the current round's.
RS_ProcessLocalTimeout(st, round) == round = st.cur

\* RoundState::record_vote: the last vote sent in this round.
RS_RecordVote(st, vote) ==
    IF vote.block.round = st.cur THEN [st EXCEPT !.vote_sent = vote] ELSE st

\* RoundState::insert_vote (PendingVotes): one vote per (author, round);
\* every vote carries a signature on its block, which counts toward a QC for
\* that block; a timeout signature counts toward a TC for the vote's round.
RS_InsertVote(st, vote) ==
    LET prev == {v \in st.pending :
                    v.author = vote.author /\ v.block.round = vote.block.round}
        pend == (st.pending \ prev) \cup {vote}
        st1  == [st EXCEPT !.pending = pend]
        sigs == {v.author : v \in {w \in pend : w.block = vote.block}}
        tsigs == {v.author : v \in {w \in pend :
                                  w.block.round = vote.block.round /\ w.timeout}}
    IN  IF \E p \in prev : p.block # vote.block
        THEN [st |-> st, result |-> "EquivocateVote"]
        ELSE IF \E p \in prev : p.timeout \/ ~vote.timeout
        THEN [st |-> st, result |-> "DuplicateVote"]
        ELSE IF Cardinality(sigs) >= QuorumSize
        THEN [st |-> st1, result |-> "NewQuorumCertificate"]
        ELSE IF vote.timeout /\ Cardinality(tsigs) >= QuorumSize
        THEN [st |-> st1, result |-> "NewTimeoutCertificate"]
        ELSE [st |-> st1, result |-> "VoteAdded"]

\* ------------------------------------------------------------- BlockStore
\* BlockStore::sync_info
BS_SyncInfo(st) == MkSyncInfo(st.hqc, st.htc)
\* BlockStore::get_quorum_cert_for_block
BS_GetQuorumCertForBlock(st, block) == block \in st.qcs
\* BlockStore::insert_quorum_cert: the certified block and its missing
\* ancestors are retrieved; highest_qc moves only to a higher round.
BS_InsertQuorumCert(st, block) ==
    [st EXCEPT !.blocks = @ \cup Ancestors(block),
               !.qcs = @ \cup Ancestors(block),
               !.hqc = IF block.round > @.round THEN block ELSE @]
\* BlockStore::insert_timeout_certificate: highest_tc moves only forward.
BS_InsertTimeoutCertificate(st, round) ==
    [st EXCEPT !.htc = IF round > @ THEN round ELSE @]
\* BlockStore::add_certs: the certificates of a sync info.
BS_AddCerts(st, si) ==
    LET st1 == BS_InsertQuorumCert(st, si.hqc)
    IN  IF si.htc = 0 THEN st1 ELSE BS_InsertTimeoutCertificate(st1, si.htc)
\* BlockStore::execute_and_insert_block: fails when the parent is absent or
\* the execution fails; a block already present is returned as it is.
BS_ExecuteAndInsertBlock(st, block, fails) ==
    IF fails \/ ParentOf(block) \notin st.blocks
    THEN Err(st, "execute")
    ELSE Ok([st EXCEPT !.blocks = @ \cup {block}])

\* ------------------------------------------------------------ SafetyRules
\* TSafetyRules::update: preferred_round rises to the round of the parent of
\* the highest certified block.
SR_Update(st, hqc, fails) ==
    IF fails THEN Err(st, "safety_update")
    ELSE Ok([st EXCEPT !.pr = Max(@, ParentOf(hqc).round)])
\* TSafetyRules::construct_and_sign_vote: the two voting rules; on success
\* last_voted_round advances.
SR_ConstructAndSignVote(st, block, fails) ==
    IF fails \/ ~(block.round > st.lvr) \/ ~(ParentOf(block).round >= st.pr)
    THEN Err(st, "safety_vote")
    ELSE Ok([st EXCEPT !.lvr = block.round,
                       !.signed = @ \cup {[round |-> block.round, block |-> block]}])
\* TSafetyRules::sign_timeout
SR_SignTimeout(st, round, fails) ==
    IF fails \/ ~(round >= st.lvr)
    THEN Err(st, "safety_timeout")
    ELSE Ok([st EXCEPT !.lvr = round])
\* TSafetyRules::sign_proposal
SR_SignProposal(st, block, fails) ==
    IF fails \/ ~(ParentOf(block).round >= st.pr)
    THEN Err(st, "safety_proposal")
    ELSE Ok(st)

\* ------------------------------------------------------ ProposalGenerator
\* ProposalGenerator::generate_proposal: at most one proposal per round, on
\* the highest certified block.
PG_GenerateProposal(st, round, fails) ==
    IF fails \/ ~(round > st.lpr) \/ ~(st.hqc.round < round)
    THEN [ok |-> FALSE, st |-> st, block |-> NoBlock]
    ELSE [ok |-> TRUE, st |-> [st EXCEPT !.lpr = round],
          block |-> [round |-> round, kind |-> "P", pround |-> st.hqc.round]]
\* ProposalGenerator::generate_nil_block: a NIL block on the highest
\* certified block.
PG_GenerateNilBlock(st, round, fails) ==
    IF fails \/ ~(st.hqc.round < round)
    THEN [ok |-> FALSE, block |-> NoBlock]
    ELSE [ok |-> TRUE, block |-> [round |-> round, kind |-> "NIL", pround |-> st.hqc.round]]

\* ----------------------------------------------------------- RoundManager
\* The result of a call that returns a vote.
VOk(st, vote) == [ok |-> TRUE, st |-> st, err |-> None, vote |-> vote]
VErr(st, why) == [ok |-> FALSE, st |-> st, err |-> why, vote |-> NoVote]

\* RoundManager::generate_proposal
RM_GenerateProposal(st, event, fault) ==
    LET g == PG_GenerateProposal(st, event.round, fault = "gen_proposal")
        s == SR_SignProposal(g.st, g.block, fault = "sign_proposal")
    IN  IF ~g.ok THEN [ok |-> FALSE, st |-> g.st, block |-> NoBlock]
        ELSE IF ~s.ok THEN [ok |-> FALSE, st |-> g.st, block |-> NoBlock]
        ELSE [ok |-> TRUE,
              st |-> Log(s.st, [op |-> "sign_proposal", block |-> g.block]),
              block |-> g.block]

\* process_new_round_event that proposes whoever leads the round.
RM_ProcessNewRoundEvent_AnyProposer(st, event, fault) ==
    LET s0 == Log(st, [op |-> "new_round", round |-> event.round, reason |-> event.reason])
        g  == RM_GenerateProposal(s0, event, fault)
    IN  IF ~g.ok THEN g.st
        ELSE Log([g.st EXCEPT !.proposed = @ \cup {g.block}],
                 [op |-> "broadcast_proposal", block |-> g.block,
                  si |-> BS_SyncInfo(g.st)])

\* RoundManager::process_new_round_event: the leader of the round proposes;
\* an error while generating the proposal is logged and swallowed.
RM_ProcessNewRoundEvent(st, event, fault) ==
    LET s0 == Log(st, [op |-> "new_round", round |-> event.round, reason |-> event.reason])
        g  == RM_GenerateProposal(s0, event, fault)
    IN  IF ~IsValidProposer(st.author, event.round) THEN s0
        ELSE IF ~g.ok THEN g.st
        ELSE Log([g.st EXCEPT !.proposed = @ \cup {g.block}],
                 [op |-> "broadcast_proposal", block |-> g.block,
                  si |-> BS_SyncInfo(g.st)])

\* The two call sites of process_certificates, with the names of the
\* failures that can be injected at each.
SyncSite == [update |-> "update_sync", cstate |-> "consensus_state_sync"]
AggSite == [update |-> "update_agg", cstate |-> "consensus_state_agg"]

\* RoundManager::process_certificates
RM_ProcessCertificates(st, fault, site) ==
    LET si == BS_SyncInfo(st)
        u  == SR_Update(st, si.hqc, fault = site.update)
        r  == RS_ProcessCertificates(u.st, si)
        s1 == Log(r.st, [op |-> "process_certificates", round |-> r.st.cur])
    IN  IF ~u.ok THEN Err(st, u.err)
        ELSE IF fault = site.cstate THEN Err(u.st, "consensus_state")
        ELSE IF r.event = NoEvent THEN Ok(s1)
        ELSE The({Ok(RM_ProcessNewRoundEvent(s, r.event, fault)) : s \in {s1}})

\* sync_up that runs process_certificates although add_certs has failed.
RM_SyncUp_ProcessAnyway(st, sync_info, help_remote, fault) ==
    LET local == BS_SyncInfo(st)
        s1 == IF help_remote /\ HasNewerCertificates(local, sync_info)
              THEN Log(st, [op |-> "send_sync_info", si |-> local])
              ELSE st
    IN  IF HasNewerCertificates(sync_info, local)
        THEN IF fault = "verify" THEN Err(s1, "verify")
             ELSE IF fault = "add_certs"
             THEN The({Err(p.st, "add_certs") :
                       p \in {RM_ProcessCertificates(s1, fault, SyncSite)}})
             ELSE The({RM_ProcessCertificates(s, fault, SyncSite) :
                       s \in {BS_AddCerts(s1, sync_info)}})
        ELSE Ok(s1)

\* RoundManager::sync_up
RM_SyncUp(st, sync_info, help_remote, fault) ==
    LET local == BS_SyncInfo(st)
        s1 == IF help_remote /\ HasNewerCertificates(local, sync_info)
              THEN Log(st, [op |-> "send_sync_info", si |-> local])
              ELSE st
    IN  IF HasNewerCertificates(sync_info, local)
        THEN IF fault = "verify" THEN Err(s1, "verify")
             ELSE IF fault = "add_certs" THEN Err(s1, "add_certs")
             ELSE The({RM_ProcessCertificates(s, fault, SyncSite) :
                       s \in {BS_AddCerts(s1, sync_info)}})
        ELSE Ok(s1)

\* pre_process_proposal without the check of the round after sync_up.
RM_PreProcessProposal_NoRecheck(st, msg, fault) ==
    IF ~(msg.block.round >= st.cur) THEN Err(st, "old_round")
    ELSE IF ~IsValidProposal(msg) THEN Err(st, "invalid_proposer")
    ELSE RM_SyncUp(st, msg.si, TRUE, fault)
\* pre_process_proposal that syncs up before it filters the proposal.
RM_PreProcessProposal_SyncFirst(st, msg, fault) ==
    The({IF ~s.ok THEN s
         ELSE IF ~(msg.block.round >= st.cur) THEN Err(s.st, "old_round")
         ELSE IF ~IsValidProposal(msg) THEN Err(s.st, "invalid_proposer")
         ELSE IF ~(msg.block.round = s.st.cur) THEN Err(s.st, "round_after_sync")
         ELSE Ok(s.st) :
         s \in {RM_SyncUp(st, msg.si, TRUE, fault)}})

\* RoundManager::pre_process_proposal
RM_PreProcessProposal(st, msg, fault) ==
    IF ~(msg.block.round >= st.cur) THEN Err(st, "old_round")
    ELSE IF ~IsValidProposal(msg) THEN Err(st, "invalid_proposer")
    ELSE The({IF ~s.ok THEN s
              ELSE IF ~(msg.block.round = s.st.cur) THEN Err(s.st, "round_after_sync")
              ELSE Ok(s.st) :
              s \in {RM_SyncUp(st, msg.si, TRUE, fault)}})

\* execute_and_vote that waits for the block's timestamp after the safety
\* rules have signed.
RM_ExecuteAndVote_WaitAfterSign(st, block, fault) ==
    LET e  == BS_ExecuteAndInsertBlock(st, block, fault = "execute")
        s1 == Log(Log(e.st, [op |-> "execute", block |-> block]),
                  [op |-> "txn_commit", block |-> block])
        v  == SR_ConstructAndSignVote(s1, block, fault = "sign_vote")
        vote == MkVote(st.author, block, FALSE)
        s2 == Log(v.st, [op |-> "sign_vote", vote |-> vote,
                         cur |-> s1.cur, vote_sent |-> s1.vote_sent])
        s3 == Log([s2 EXCEPT !.saved = vote], [op |-> "save_vote", vote |-> vote])
    IN  IF ~e.ok THEN VErr(st, "execute")
        ELSE IF ~(block.round = s1.cur) THEN VErr(s1, "round")
        ELSE IF ~(s1.vote_sent = NoVote) THEN VErr(s1, "already_voted")
        ELSE IF ~v.ok THEN VErr(s1, "safety_vote")
        ELSE IF fault \in {"wait_max", "wait_failed"} THEN VErr(s2, fault)
        ELSE IF fault = "consensus_state_vote" THEN VErr(s2, "consensus_state")
        ELSE IF fault = "save_vote" THEN VErr(s2, "save_vote")
        ELSE VOk(s3, vote)

\* execute_and_vote that notifies the transaction manager only after the
\* checks of the round and of the vote sent.
RM_ExecuteAndVote_CheckFirst(st, block, fault) ==
    LET e  == BS_ExecuteAndInsertBlock(st, block, fault = "execute")
        s0 == Log(e.st, [op |-> "execute", block |-> block])
        s1 == Log(s0, [op |-> "txn_commit", block |-> block])
        v  == SR_ConstructAndSignVote(s1, block, fault = "sign_vote")
        vote == MkVote(st.author, block, FALSE)
        s2 == Log(v.st, [op |-> "sign_vote", vote |-> vote,
                         cur |-> s1.cur, vote_sent |-> s1.vote_sent])
        s3 == Log([s2 EXCEPT !.saved = vote], [op |-> "save_vote", vote |-> vote])
    IN  IF ~e.ok THEN VErr(st, "execute")
        ELSE IF ~(block.round = s0.cur) THEN VErr(s0, "round")
        ELSE IF ~(s0.vote_sent = NoVote) THEN VErr(s0, "already_voted")
        ELSE IF fault \in {"wait_max", "wait_failed"} THEN VErr(s1, fault)
        ELSE IF ~v.ok THEN VErr(s1, "safety_vote")
        ELSE IF fault = "consensus_state_vote" THEN VErr(s2, "consensus_state")
        ELSE IF fault = "save_vote" THEN VErr(s2, "save_vote")
        ELSE VOk(s3, vote)

\* execute_and_vote that votes although the safety rules have refused.
RM_ExecuteAndVote_IgnoreVeto(st, block, fault) ==
    LET e  == BS_ExecuteAndInsertBlock(st, block, fault = "execute")
        s1 == Log(Log(e.st, [op |-> "execute", block |-> block]),
                  [op |-> "txn_commit", block |-> block])
        v  == SR_ConstructAndSignVote(s1, block, fault = "sign_vote")
        vote == MkVote(st.author, block, FALSE)
        s2 == Log(v.st, [op |-> "sign_vote", vote |-> vote,
                         cur |-> s1.cur, vote_sent |-> s1.vote_sent])
        s3 == Log([s2 EXCEPT !.saved = vote], [op |-> "save_vote", vote |-> vote])
    IN  IF ~e.ok THEN VErr(st, "execute")
        ELSE IF ~(block.round = s1.cur) THEN VErr(s1, "round")
        ELSE IF ~(s1.vote_sent = NoVote) THEN VErr(s1, "already_voted")
        ELSE IF fault \in {"wait_max", "wait_failed"} THEN VErr(s1, fault)
        ELSE IF fault = "consensus_state_vote" THEN VErr(s2, "consensus_state")
        ELSE IF fault = "save_vote" THEN VErr(s2, "save_vote")
        ELSE VOk(s3, vote)

\* execute_and_vote without the second check of the round.
RM_ExecuteAndVote_NoRoundCheck(st, block, fault) ==
    LET e  == BS_ExecuteAndInsertBlock(st, block, fault = "execute")
        s1 == Log(Log(e.st, [op |-> "execute", block |-> block]),
                  [op |-> "txn_commit", block |-> block])
        v  == SR_ConstructAndSignVote(s1, block, fault = "sign_vote")
        vote == MkVote(st.author, block, FALSE)
        s2 == Log(v.st, [op |-> "sign_vote", vote |-> vote,
                         cur |-> s1.cur, vote_sent |-> s1.vote_sent])
        s3 == Log([s2 EXCEPT !.saved = vote], [op |-> "save_vote", vote |-> vote])
    IN  IF ~e.ok THEN VErr(st, "execute")
        ELSE IF ~(s1.vote_sent = NoVote) THEN VErr(s1, "already_voted")
        ELSE IF fault \in {"wait_max", "wait_failed"} THEN VErr(s1, fault)
        ELSE IF ~v.ok THEN VErr(s1, "safety_vote")
        ELSE IF fault = "consensus_state_vote" THEN VErr(s2, "consensus_state")
        ELSE IF fault = "save_vote" THEN VErr(s2, "save_vote")
        ELSE VOk(s3, vote)

\* execute_and_vote that returns the vote without persisting it.
RM_ExecuteAndVote_NoSave(st, block, fault) ==
    LET e  == BS_ExecuteAndInsertBlock(st, block, fault = "execute")
        s1 == Log(Log(e.st, [op |-> "execute", block |-> block]),
                  [op |-> "txn_commit", block |-> block])
        v  == SR_ConstructAndSignVote(s1, block, fault = "sign_vote")
        vote == MkVote(st.author, block, FALSE)
        s2 == Log(v.st, [op |-> "sign_vote", vote |-> vote,
                         cur |-> s1.cur, vote_sent |-> s1.vote_sent])
    IN  IF ~e.ok THEN VErr(st, "execute")
        ELSE IF ~(block.round = s1.cur) THEN VErr(s1, "round")
        ELSE IF ~(s1.vote_sent = NoVote) THEN VErr(s1, "already_voted")
        ELSE IF fault \in {"wait_max", "wait_failed"} THEN VErr(s1, fault)
        ELSE IF ~v.ok THEN VErr(s1, "safety_vote")
        ELSE IF fault = "consensus_state_vote" THEN VErr(s2, "consensus_state")
        ELSE VOk(s2, vote)

\* RoundManager::execute_and_vote
RM_ExecuteAndVote(st, block, fault) ==
    LET e  == BS_ExecuteAndInsertBlock(st, block, fault = "execute")
        s1 == Log(Log(e.st, [op |-> "execute", block |-> block]),
                  [op |-> "txn_commit", block |-> block])
        v  == SR_ConstructAndSignVote(s1, block, fault = "sign_vote")
        vote == MkVote(st.author, block, FALSE)
        s2 == Log(v.st, [op |-> "sign_vote", vote |-> vote,
                         cur |-> s1.cur, vote_sent |-> s1.vote_sent])
        s3 == Log([s2 EXCEPT !.saved = vote], [op |-> "save_vote", vote |-> vote])
    IN  IF ~e.ok THEN VErr(st, "execute")
        ELSE IF ~(block.round = s1.cur) THEN VErr(s1, "round")
        ELSE IF ~(s1.vote_sent = NoVote) THEN VErr(s1, "already_voted")
        ELSE IF fault \in {"wait_max", "wait_failed"} THEN VErr(s1, fault)
        ELSE IF ~v.ok THEN VErr(s1, "safety_vote")
        ELSE IF fault = "consensus_state_vote" THEN VErr(s2, "consensus_state")
        ELSE IF fault = "save_vote" THEN VErr(s2, "save_vote")
        ELSE VOk(s3, vote)

\* process_proposed_block that sends the vote before recording it.
RM_ProcessProposedBlock_SendFirst(st, block, fault) ==
    The({LET s1 == Log(r.st, [op |-> "send_vote", vote |-> r.vote,
                              to |-> LeaderFor(block.round + 1),
                              vote_sent |-> r.st.vote_sent, saved |-> r.st.saved])
             s2 == Log(RS_RecordVote(s1, r.vote), [op |-> "record_vote", vote |-> r.vote])
         IN  IF ~r.ok THEN Err(r.st, r.err) ELSE Ok(s2) :
         r \in {RM_ExecuteAndVote(st, block, fault)}})

\* RoundManager::process_proposed_block
RM_ProcessProposedBlock(st, block, fault) ==
    The({LET s1 == Log(RS_RecordVote(r.st, r.vote), [op |-> "record_vote", vote |-> r.vote])
             s2 == Log(s1, [op |-> "send_vote", vote |-> r.vote,
                            to |-> LeaderFor(block.round + 1),
                            vote_sent |-> s1.vote_sent, saved |-> s1.saved])
         IN  IF ~r.ok THEN Err(r.st, r.err) ELSE Ok(s2) :
         r \in {RM_ExecuteAndVote(st, block, fault)}})

\* RoundManager::process_proposal_msg
RM_ProcessProposalMsg(st, msg, fault) ==
    The({IF ~p.ok THEN p ELSE RM_ProcessProposedBlock(p.st, msg.block, fault) :
         p \in {RM_PreProcessProposal(st, msg, fault)}})

\* process_sync_info_msg that asks sync_up to help the remote.
RM_ProcessSyncInfoMsg_Help(st, sync_info, fault) ==
    RM_SyncUp(st, sync_info, TRUE, fault)

\* RoundManager::process_sync_info_msg
RM_ProcessSyncInfoMsg(st, sync_info, fault) ==
    RM_SyncUp(st, sync_info, FALSE, fault)

\* process_local_timeout that records the timeout vote and keeps it to itself.
RM_ProcessLocalTimeout_NoBroadcast(st, round, fault) ==
    LET use_last_vote == st.vote_sent # NoVote /\ st.vote_sent.block.round = round
        n  == PG_GenerateNilBlock(st, round, fault = "gen_nil")
    IN  The({LET t  == IF nv.vote.timeout THEN Ok(nv.st)
                       ELSE SR_SignTimeout(nv.st, round, fault = "sign_timeout")
                 s1 == IF nv.vote.timeout THEN t.st
                       ELSE Log(t.st, [op |-> "sign_timeout", round |-> round])
                 timeout_vote == [nv.vote EXCEPT !.timeout = TRUE]
                 s2 == Log(RS_RecordVote(s1, timeout_vote),
                           [op |-> "record_vote", vote |-> timeout_vote])
             IN  IF ~RS_ProcessLocalTimeout(st, round) THEN Err(st, "stale_timeout")
                 ELSE IF ~nv.ok THEN Err(nv.st, nv.err)
                 ELSE IF ~t.ok THEN Err(nv.st, t.err)
                 ELSE Ok(s2) :
             nv \in {IF use_last_vote THEN VOk(st, st.vote_sent)
                     ELSE IF ~n.ok THEN VErr(st, "gen_nil")
                     ELSE RM_ExecuteAndVote(Log(st, [op |-> "gen_nil", block |-> n.block]),
                                            n.block, fault)}})

\* process_local_timeout that votes on a NIL block whether or not a vote was
\* sent in the round.
RM_ProcessLocalTimeout_AlwaysNil(st, round, fault) ==
    LET n  == PG_GenerateNilBlock(st, round, fault = "gen_nil")
    IN  The({LET t  == SR_SignTimeout(nv.st, round, fault = "sign_timeout")
                 s1 == Log(t.st, [op |-> "sign_timeout", round |-> round])
                 timeout_vote == [nv.vote EXCEPT !.timeout = TRUE]
                 s2 == Log(RS_RecordVote(s1, timeout_vote),
                           [op |-> "record_vote", vote |-> timeout_vote])
                 s3 == Log(s2, [op |-> "broadcast_vote", vote |-> timeout_vote,
                                vote_sent |-> s2.vote_sent, saved |-> s2.saved])
             IN  IF ~RS_ProcessLocalTimeout(st, round) THEN Err(st, "stale_timeout")
                 ELSE IF ~nv.ok THEN Err(nv.st, nv.err)
                 ELSE IF ~t.ok THEN Err(nv.st, t.err)
                 ELSE Ok(s3) :
             nv \in {IF ~n.ok THEN VErr(st, "gen_nil")
                     ELSE RM_ExecuteAndVote(Log(st, [op |-> "gen_nil", block |-> n.block]),
                                            n.block, fault)}})

\* process_local_timeout without the check that the timer is the current
\* round's.
RM_ProcessLocalTimeout_NoStaleCheck(st, round, fault) ==
    LET use_last_vote == st.vote_sent # NoVote /\ st.vote_sent.block.round = round
        n  == PG_GenerateNilBlock(st, round, fault = "gen_nil")
    IN  The({LET t  == IF nv.vote.timeout THEN Ok(nv.st)
                       ELSE SR_SignTimeout(nv.st, round, fault = "sign_timeout")
                 s1 == IF nv.vote.timeout THEN t.st
                       ELSE Log(t.st, [op |-> "sign_timeout", round |-> round])
                 timeout_vote == [nv.vote EXCEPT !.timeout = TRUE]
                 s2 == Log(RS_RecordVote(s1, timeout_vote),
                           [op |-> "record_vote", vote |-> timeout_vote])
                 s3 == Log(s2, [op |-> "broadcast_vote", vote |-> timeout_vote,
                                vote_sent |-> s2.vote_sent, saved |-> s2.saved])
             IN  IF ~nv.ok THEN Err(nv.st, nv.err)
                 ELSE IF ~t.ok THEN Err(nv.st, t.err)
                 ELSE Ok(s3) :
             nv \in {IF use_last_vote THEN VOk(st, st.vote_sent)
                     ELSE IF ~n.ok THEN VErr(st, "gen_nil")
                     ELSE RM_ExecuteAndVote(Log(st, [op |-> "gen_nil", block |-> n.block]),
                                            n.block, fault)}})

\* RoundManager::process_local_timeout
RM_ProcessLocalTimeout(st, round, fault) ==
    LET use_last_vote == st.vote_sent # NoVote /\ st.vote_sent.block.round = round
        n  == PG_GenerateNilBlock(st, round, fault = "gen_nil")
    IN  The({LET t  == IF nv.vote.timeout THEN Ok(nv.st)
                       ELSE SR_SignTimeout(nv.st, round, fault = "sign_timeout")
                 s1 == IF nv.vote.timeout THEN t.st
                       ELSE Log(t.st, [op |-> "sign_timeout", round |-> round])
                 timeout_vote == [nv.vote EXCEPT !.timeout = TRUE]
                 s2 == Log(RS_RecordVote(s1, timeout_vote),
                           [op |-> "record_vote", vote |-> timeout_vote])
                 s3 == Log(s2, [op |-> "broadcast_vote", vote |-> timeout_vote,
                                vote_sent |-> s2.vote_sent, saved |-> s2.saved])
             IN  IF ~RS_ProcessLocalTimeout(st, round) THEN Err(st, "stale_timeout")
                 ELSE IF ~nv.ok THEN Err(nv.st, nv.err)
                 ELSE IF ~t.ok THEN Err(nv.st, t.err)
                 ELSE Ok(s3) :
             nv \in {IF use_last_vote THEN VOk(st, st.vote_sent)
                     ELSE IF ~n.ok THEN VErr(st, "gen_nil")
                     ELSE RM_ExecuteAndVote(Log(st, [op |-> "gen_nil", block |-> n.block]),
                                            n.block, fault)}})

\* new_qc_aggregated that stores the certificate and stops there.
RM_NewQcAggregated_NoProcess(st, block, fault) ==
    IF fault = "insert_qc" THEN Err(st, "insert_qc")
    ELSE Ok(BS_InsertQuorumCert(st, block))

\* RoundManager::new_qc_aggregated
RM_NewQcAggregated(st, block, fault) ==
    IF fault = "insert_qc" THEN Err(st, "insert_qc")
    ELSE The({RM_ProcessCertificates(s, fault, AggSite) :
              s \in {BS_InsertQuorumCert(st, block)}})

\* new_tc_aggregated that stores the certificate and stops there.
RM_NewTcAggregated_NoProcess(st, round, fault) ==
    IF fault = "insert_tc" THEN Err(st, "insert_tc")
    ELSE Ok(BS_InsertTimeoutCertificate(st, round))

\* RoundManager::new_tc_aggregated
RM_NewTcAggregated(st, round, fault) ==
    IF fault = "insert_tc" THEN Err(st, "insert_tc")
    ELSE The({RM_ProcessCertificates(s, fault, AggSite) :
              s \in {BS_InsertTimeoutCertificate(st, round)}})

\* add_vote without the check that the block already has a quorum
\* certificate.
RM_AddVote_NoQcCheck(st, vote, fault) ==
    The({The({IF r.result = "NewQuorumCertificate"
              THEN RM_NewQcAggregated(s1, vote.block, fault)
              ELSE IF r.result = "NewTimeoutCertificate"
              THEN RM_NewTcAggregated(s1, vote.block.round, fault)
              ELSE Ok(s1) :
              s1 \in {Log(r.st, [op |-> "insert_vote", vote |-> vote,
                                 result |-> r.result])}}) :
         r \in {RS_InsertVote(st, vote)}})
\* RoundManager::add_vote
RM_AddVote(st, vote, fault) ==
    IF BS_GetQuorumCertForBlock(st, vote.block) THEN Ok(st)
    ELSE The({The({IF r.result = "NewQuorumCertificate"
                   THEN RM_NewQcAggregated(s1, vote.block, fault)
                   ELSE IF r.result = "NewTimeoutCertificate"
                   THEN RM_NewTcAggregated(s1, vote.block.round, fault)
                   ELSE Ok(s1) :
                   s1 \in {Log(r.st, [op |-> "insert_vote", vote |-> vote,
                                      result |-> r.result])}}) :
              r \in {RS_InsertVote(st, vote)}})

\* process_vote without the check of the recipient.
RM_ProcessVote_AnyRecipient(st, msg, fault) ==
    The({IF ~s.ok THEN s ELSE RM_AddVote(s.st, msg.vote, fault) :
         s \in {RM_SyncUp(st, msg.si, TRUE, fault)}})

\* RoundManager::process_vote
RM_ProcessVote(st, msg, fault) ==
    LET next_round == msg.vote.block.round + 1
    IN  IF ~msg.vote.timeout /\ ~IsValidProposer(st.author, next_round)
        THEN Err(st, "not_next_proposer")
        ELSE The({IF ~s.ok THEN s ELSE RM_AddVote(s.st, msg.vote, fault) :
                  s \in {RM_SyncUp(st, msg.si, TRUE, fault)}})

\* RoundManager::process_block_retrieval: the walk over the ancestors.
ParentId(b) == IF b = Genesis THEN NoBlock ELSE ParentOf(b)
\* The walk that collects while it has at most num_blocks blocks.
RECURSIVE RetrieveBlocks_OneMore(_, _, _, _)
RetrieveBlocks_OneMore(store, id, num_blocks, blocks) ==
    IF Len(blocks) <= num_blocks
    THEN IF id \in store
         THEN RetrieveBlocks_OneMore(store, ParentId(id), num_blocks, Append(blocks, id))
         ELSE [status |-> "NotEnoughBlocks", blocks |-> blocks]
    ELSE [status |-> "Succeeded", blocks |-> blocks]
RECURSIVE RetrieveBlocks(_, _, _, _)
RetrieveBlocks(store, id, num_blocks, blocks) ==
    IF Len(blocks) < num_blocks
    THEN IF id \in store
         THEN RetrieveBlocks(store, ParentId(id), num_blocks, Append(blocks, id))
         ELSE [status |-> "NotEnoughBlocks", blocks |-> blocks]
    ELSE [status |-> "Succeeded", blocks |-> blocks]
\* The response whose status is the status the walk ended with.
BlockRetrievalResponse_WalkStatus(store, id, num_blocks) ==
    LET r == RetrieveBlocks(store, id, num_blocks, <<>>)
    IN  [status |-> r.status, blocks |-> r.blocks]
BlockRetrievalResponse(store, id, num_blocks) ==
    LET r == RetrieveBlocks(store, id, num_blocks, <<>>)
    IN  [status |-> IF r.blocks = <<>> THEN "IdNotFound" ELSE r.status,
         blocks |-> r.blocks]
RM_ProcessBlockRetrieval(st, id, num_blocks, fault) ==
    LET resp == BlockRetrievalResponse(st.blocks, id, num_blocks)
    IN  IF fault = "respond" THEN Err(st, "respond")
        ELSE Ok(Log(st, [op |-> "retrieval_response", status |-> resp.status,
                         blocks |-> resp.blocks]))

\* RoundManager::start
RM_Start(st, last_vote_sent, fault) ==
    LET r  == RS_ProcessCertificates(st, BS_SyncInfo(st))
        s1 == IF last_vote_sent = NoVote THEN r.st ELSE RS_RecordVote(r.st, last_vote_sent)
    IN  The({RM_ProcessNewRoundEvent(s, r.event, fault) : s \in {s1}})

\* RoundManager::new on the genesis state: nothing voted, nothing stored.
NewReplica ==
    [author |-> Self, cur |-> 0, vote_sent |-> NoVote, pending |-> {},
     blocks |-> {Genesis}, qcs |-> {Genesis}, hqc |-> Genesis, htc |-> 0,
     lvr |-> 0, pr |-> 0, lpr |-> 0, saved |-> NoVote,
     signed |-> {}, proposed |-> {}, log |-> <<>>]
\* The replica rebuilt after a crash: the block store, the safety data and
\* the last vote are recovered from storage; RoundState and
\* ProposalGenerator are new.
Recovered(st) ==
    [st EXCEPT !.cur = 0, !.vote_sent = NoVote, !.pending = {}, !.lpr = 0, !.log = <<>>]

\* ------------------------------------------------------------ environment
\* A handler starts with an empty log of calls.
Begin(st) == [st EXCEPT !.log = <<>>]
HasOp(log, op) == \E i \in DOMAIN log : log[i].op = op
Last(r) == [err |-> r.err, reply |-> HasOp(r.st.log, "send_sync_info")]

\* The failures of the collaborators that an event can meet: at most one
\* per event.
ProposalFaults ==
    {None, "verify", "add_certs", "update_sync", "consensus_state_sync",
     "gen_proposal", "sign_proposal", "execute", "wait_max", "wait_failed",
     "sign_vote", "consensus_state_vote", "save_vote"}
VoteFaults ==
    {None, "verify", "add_certs", "update_sync", "consensus_state_sync",
     "gen_proposal", "sign_proposal", "insert_qc", "insert_tc",
     "update_agg", "consensus_state_agg"}
SyncInfoFaults ==
    {None, "verify", "add_certs", "update_sync", "consensus_state_sync",
     "gen_proposal", "sign_proposal"}
TimeoutFaults ==
    {None, "gen_nil", "execute", "wait_max", "wait_failed", "sign_vote",
     "consensus_state_vote", "save_vote", "sign_timeout"}
\* The rounds whose timer fires.
TimeoutRounds == 1..MaxRound
RetrievalFaults == {None, "respond"}
StartFaults == {None, "gen_proposal", "sign_proposal"}

\* The proposals the environment sends: a proposal block, its author (the
\* leader of the block's round, or the leader of the next round in its
\* place) and the sender's sync info.  A proposal of this replica is one
\* it has broadcast.
ProposalBlocks == {b \in Blocks : b.kind = "P"}
ProposalMsgs(st) ==
    {m \in UNION {[block : {b}, author : {LeaderFor(b.round), LeaderFor(b.round + 1)},
                   si : SyncInfos] : b \in ProposalBlocks} :
        m.author = Self => m.block \in st.proposed}

\* The votes the environment sends.  v4 is silent.  v1 and v2 send timeout
\* votes for the proposal on the certified chain; v1 also votes for a NIL
\* block of a round, and for the NIL block of round MaxRound + 1 with or
\* without a timeout signature; the vote of this replica is the one it has
\* sent in this round.  Only a block of the certified chain can then gather a
\* quorum, and only with the vote of this replica.
NilOf(r) == [round |-> r, kind |-> "NIL", pround |-> r - 1]
Votes(st) ==
    {v \in [author : {"v1", "v2"}, block : Chain \ {Genesis}, timeout : {TRUE}]
          \cup [author : {"v1"}, block : {NilOf(r) : r \in 1..MaxRound}, timeout : {FALSE}]
          \cup [author : {"v1"}, block : {NilOf(MaxRound + 1)}, timeout : BOOLEAN]
          \cup ({st.vote_sent} \ {NoVote}) :
        v.block.round + VoteWindow >= st.cur}
VoteMsgs(st) == [vote : Votes(st), si : SyncInfos]

\* The block retrieval requests: a block id (the absent id included) and a
\* number of blocks.
RetrievalRequests == [id : ProposalBlocks \cup {Genesis, NoBlock}, num_blocks : 0..MaxNumBlocks]

\* An event meets a failure only while fewer than MaxFaults have happened,
\* and a failure that is chosen is one the handler runs into: r is the
\* handler's result with the failure, r0 without.
Faulty(fault, r, r0) ==
    IF fault = None
    THEN env' = env
    ELSE /\ env.faults < MaxFaults
         /\ r # r0
         /\ env' = [env EXCEPT !.faults = @ + 1]
\* The step of a handler whose result is r.
Handled(fault, r, r0) ==
    /\ Faulty(fault, r, r0)
    /\ rm' = Begin(r.st)
    /\ last' = Last(r)

DeliverProposal ==
    \E msg \in ProposalMsgs(rm) :
        LET r0 == RM_ProcessProposalMsg(rm, msg, None)
        IN  \E fault \in ProposalFaults :
                Handled(fault, IF fault = None THEN r0
                               ELSE RM_ProcessProposalMsg(rm, msg, fault), r0)

DeliverVote ==
    \E msg \in VoteMsgs(rm) :
        LET r0 == RM_ProcessVote(rm, msg, None)
        IN  \E fault \in VoteFaults :
                Handled(fault, IF fault = None THEN r0
                               ELSE RM_ProcessVote(rm, msg, fault), r0)

DeliverSyncInfo ==
    \E si \in SyncInfos :
        LET r0 == RM_ProcessSyncInfoMsg(rm, si, None)
        IN  \E fault \in SyncInfoFaults :
                Handled(fault, IF fault = None THEN r0
                               ELSE RM_ProcessSyncInfoMsg(rm, si, fault), r0)

LocalTimeout ==
    \E round \in TimeoutRounds :
        LET r0 == RM_ProcessLocalTimeout(rm, round, None)
        IN  \E fault \in TimeoutFaults :
                Handled(fault, IF fault = None THEN r0
                               ELSE RM_ProcessLocalTimeout(rm, round, fault), r0)

BlockRetrieval ==
    \E req \in RetrievalRequests :
        LET r0 == RM_ProcessBlockRetrieval(rm, req.id, req.num_blocks, None)
        IN  \E fault \in RetrievalFaults :
                Handled(fault, IF fault = None THEN r0
                               ELSE RM_ProcessBlockRetrieval(rm, req.id, req.num_blocks, fault), r0)

\* The replica crashes and is started again from its storage.
Restart ==
    \E fault \in StartFaults :
        LET r == Ok(RM_Start(Recovered(rm), rm.saved, fault))
        IN  /\ env.restarts < MaxRestarts
            /\ fault = None \/ r # Ok(RM_Start(Recovered(rm), rm.saved, None))
            /\ rm' = Begin(r.st)
            /\ last' = Last(r)
            /\ env' = [env EXCEPT !.restarts = @ + 1]

Init ==
    LET r == Ok(RM_Start(NewReplica, NoVote, None))
    IN  /\ rm = Begin(r.st)
        /\ last = Last(r)
        /\ env = [faults |-> 0, restarts |-> 0]

Next ==
    \/ DeliverProposal
    \/ DeliverVote
    \/ DeliverSyncInfo
    \/ LocalTimeout
    \/ BlockRetrieval
    \/ Restart

Spec == Init /\ [][Next]_vars

\* ------------------------------------------------- block retrieval server
\* process_block_retrieval reads the block store and changes nothing: it is
\* a function of the store and the request.  RetrievalSpec runs it on every
\* block store, the stores whose root has lost its ancestors to pruning
\* included, and every request; last holds the request and the response.
NoRequest == [id |-> NoBlock, num_blocks |-> 0]
NoResponse == [status |-> "none", blocks |-> <<>>]
BlockIds == Blocks \cup {NoBlock}
AllRetrievalRequests == [id : BlockIds, num_blocks : 0..MaxNumBlocks]
\* The response a handler sent, from its calls.
ResponseOf(log) ==
    IF HasOp(log, "retrieval_response")
    THEN LET i == CHOOSE j \in DOMAIN log : log[j].op = "retrieval_response"
         IN  [status |-> log[i].status, blocks |-> log[i].blocks]
    ELSE NoResponse

RetrievalInit ==
    /\ rm \in {[Begin(Ok(RM_Start(NewReplica, NoVote, None)).st) EXCEPT !.blocks = store] :
                  store \in SUBSET Blocks}
    /\ last = [err |-> None, reply |-> FALSE, req |-> NoRequest, resp |-> NoResponse]
    /\ env = [faults |-> 0, restarts |-> 0]

ServeRetrieval ==
    \E req \in AllRetrievalRequests, fault \in RetrievalFaults :
        LET r == RM_ProcessBlockRetrieval(rm, req.id, req.num_blocks, fault)
        IN  /\ rm' = Begin(r.st)
            /\ last' = [err |-> r.err, reply |-> FALSE, req |-> req,
                        resp |-> ResponseOf(r.st.log)]
            /\ env' = env

RetrievalNext == ServeRetrieval

RetrievalSpec == RetrievalInit /\ [][RetrievalNext]_vars

\* -------------------------------------------------------- RecoveryManager
\* RecoveryManager stands in for RoundManager when the local storage cannot
\* produce one.  In RecoverySpec rm is the RecoveryManager: its epoch and its
\* last_committed_round; last holds the message handled and the result.
Epochs == {1, 2}
\* A sync info as a peer sends it: with its epoch, and its signatures valid
\* under the epoch's verifier or not.  The peers are ahead of the recovering
\* replica: their certificates reach two rounds above MaxRound, the highest
\* last_committed_round, so that their commit certificates reach it.
RecoverySyncInfos ==
    {[hqc |-> si.hqc, hcc |-> si.hcc, htc |-> si.htc, epoch |-> e, valid |-> v] :
        si \in {MkSyncInfo(ChainBlock(q), t) :
                    q \in 0..(MaxRound + 2), t \in 0..(MaxRound + 2)},
        e \in Epochs, v \in BOOLEAN}
NoRecoveryData == [commit_round |-> 0 - 1, peer |-> "none"]
RecoveryResult(err, data, log) == [err |-> err, data |-> data, log |-> log]

\* sync_up that does not compare the sync info's highest round with
\* last_committed_round.
RecoveryManager_SyncUp_AnyRound(rcm, sync_info, peer, ffs_fails) ==
    LET call == <<[op |-> "fast_forward_sync", commit_round |-> sync_info.hcc, peer |-> peer]>>
    IN  IF ~sync_info.valid THEN RecoveryResult("verify", NoRecoveryData, <<>>)
        ELSE IF ~(sync_info.epoch = rcm.epoch)
        THEN RecoveryResult("different_epoch", NoRecoveryData, <<>>)
        ELSE IF ffs_fails THEN RecoveryResult("fast_forward_sync", NoRecoveryData, call)
        ELSE RecoveryResult(None, [commit_round |-> sync_info.hcc, peer |-> peer], call)
\* sync_up that does not compare the epochs.
RecoveryManager_SyncUp_AnyEpoch(rcm, sync_info, peer, ffs_fails) ==
    LET call == <<[op |-> "fast_forward_sync", commit_round |-> sync_info.hcc, peer |-> peer]>>
    IN  IF ~sync_info.valid THEN RecoveryResult("verify", NoRecoveryData, <<>>)
        ELSE IF ~(HighestRound(sync_info) > rcm.last_committed_round)
        THEN RecoveryResult("lower_round", NoRecoveryData, <<>>)
        ELSE IF ffs_fails THEN RecoveryResult("fast_forward_sync", NoRecoveryData, call)
        ELSE RecoveryResult(None, [commit_round |-> sync_info.hcc, peer |-> peer], call)

\* RecoveryManager::sync_up.  BlockStore::fast_forward_sync retrieves the
\* blocks from the peer and returns the RecoveryData, or fails.
RecoveryManager_SyncUp(rcm, sync_info, peer, ffs_fails) ==
    LET call == <<[op |-> "fast_forward_sync", commit_round |-> sync_info.hcc, peer |-> peer]>>
    IN  IF ~sync_info.valid THEN RecoveryResult("verify", NoRecoveryData, <<>>)
        ELSE IF ~(HighestRound(sync_info) > rcm.last_committed_round)
        THEN RecoveryResult("lower_round", NoRecoveryData, <<>>)
        ELSE IF ~(sync_info.epoch = rcm.epoch)
        THEN RecoveryResult("different_epoch", NoRecoveryData, <<>>)
        ELSE IF ffs_fails THEN RecoveryResult("fast_forward_sync", NoRecoveryData, call)
        ELSE RecoveryResult(None, [commit_round |-> sync_info.hcc, peer |-> peer], call)

\* RecoveryManager::process_proposal_msg
RecoveryManager_ProcessProposalMsg(rcm, msg, ffs_fails) ==
    RecoveryManager_SyncUp(rcm, msg.si, msg.author, ffs_fails)
\* RecoveryManager::process_vote
RecoveryManager_ProcessVote(rcm, msg, ffs_fails) ==
    RecoveryManager_SyncUp(rcm, msg.si, msg.vote.author, ffs_fails)

RecoveryProposalMsgs == [author : {"v1", "v2"}, si : RecoverySyncInfos]
RecoveryVoteMsgs == [vote : [author : {"v1", "v2"}], si : RecoverySyncInfos]
NoSyncInfo == [hqc |-> Genesis, hcc |-> 0, htc |-> 0, epoch |-> 0, valid |-> FALSE]

RecoveryInit ==
    /\ rm \in [epoch : Epochs, last_committed_round : 0..MaxRound]
    /\ last = [event |-> "none", si |-> NoSyncInfo, peer |-> "none",
               result |-> RecoveryResult(None, NoRecoveryData, <<>>)]
    /\ env = [faults |-> 0, restarts |-> 0]

RecoverFromProposal ==
    \E msg \in RecoveryProposalMsgs, ffs_fails \in BOOLEAN :
        /\ last' = [event |-> "ProposalMsg", si |-> msg.si, peer |-> msg.author,
                    result |-> RecoveryManager_ProcessProposalMsg(rm, msg, ffs_fails)]
        /\ UNCHANGED <<rm, env>>

RecoverFromVote ==
    \E msg \in RecoveryVoteMsgs, ffs_fails \in BOOLEAN :
        /\ last' = [event |-> "VoteMsg", si |-> msg.si, peer |-> msg.vote.author,
                    result |-> RecoveryManager_ProcessVote(rm, msg, ffs_fails)]
        /\ UNCHANGED <<rm, env>>

RecoveryNext ==
    \/ RecoverFromProposal
    \/ RecoverFromVote

RecoverySpec == RecoveryInit /\ [][RecoveryNext]_vars

\* ------------------------------------------------------------ the network
\* The validators together: in HappySpec and TimeoutSpec rm maps each
\* validator to its replica, env is the set of the messages in flight and
\* last maps each validator to the history of its new rounds, certificates
\* and broadcast votes.  A handler's sends are read off its calls: a proposal
\* and a timeout vote go to every validator, the sender included, a vote to
\* the next leader, a sync info back to the author of the message handled.
\* No call of a collaborator fails in these runs.
FirstRound == 1 + HighestRound(BS_SyncInfo(NewReplica))
NewReplicaOf(a) == [NewReplica EXCEPT !.author = a]
Started(a) == Ok(RM_Start(NewReplicaOf(a), NoVote, None))

Message(to, kind, author, block, vote, si) ==
    [to |-> to, kind |-> kind, author |-> author, block |-> block, vote |-> vote, si |-> si]
\* The messages of one call e of a handler of replica a that handled a
\* message of peer; si is the sync info of the block store.
MessagesOf(a, peer, e, si) ==
    CASE e.op = "broadcast_proposal" ->
             {Message(to, "proposal", a, e.block, NoVote, e.si) : to \in Authors}
      [] e.op = "send_vote" ->
             {Message(e.to, "vote", a, NoBlock, e.vote, si)}
      [] e.op = "broadcast_vote" ->
             {Message(to, "vote", a, NoBlock, e.vote, si) : to \in Authors}
      [] e.op = "send_sync_info" ->
             {Message(peer, "sync_info", a, NoBlock, NoVote, e.si)}
      [] OTHER -> {}
Outbox(a, peer, r) ==
    UNION {MessagesOf(a, peer, r.st.log[i], BS_SyncInfo(r.st)) : i \in DOMAIN r.st.log}
\* A network: the validators that are silent (they send nothing and handle
\* nothing) and the last rounds whose proposals and votes are carried.
Carried(net, m) ==
    /\ m.to \notin net.silent /\ m.author \notin net.silent
    /\ m.kind = "proposal" => m.block.round <= net.proposals
    /\ m.kind = "vote" => m.vote.block.round <= net.votes
\* The calls of a handler that its replica's history keeps.
Notable(e) ==
    \/ e.op \in {"new_round", "broadcast_vote"}
    \/ e.op = "insert_vote" /\ e.result \in {"NewQuorumCertificate", "NewTimeoutCertificate"}
History(log) == SelectSeq(log, Notable)

NetInit(net) ==
    /\ rm = [a \in Authors |-> Begin(Started(a).st)]
    /\ last = [a \in Authors |-> History(Started(a).st.log)]
    /\ env = {m \in UNION {Outbox(a, a, Started(a)) : a \in Authors} : Carried(net, m)}
\* Replica a has handled the message m (or its timer) with the result r.
NetHandled(net, a, peer, taken, r) ==
    /\ rm' = [rm EXCEPT ![a] = Begin(r.st)]
    /\ last' = [last EXCEPT ![a] = @ \o History(r.st.log)]
    /\ env' = (env \ taken) \cup {m \in Outbox(a, peer, r) : Carried(net, m)}

NetDeliverProposal(net) ==
    \E m \in env :
        /\ m.kind = "proposal"
        /\ \E r \in {RM_ProcessProposalMsg(rm[m.to],
                        [block |-> m.block, author |-> m.author, si |-> m.si], None)} :
               NetHandled(net, m.to, m.author, {m}, r)
NetDeliverVote(net) ==
    \E m \in env :
        /\ m.kind = "vote"
        /\ \E r \in {RM_ProcessVote(rm[m.to], [vote |-> m.vote, si |-> m.si], None)} :
               NetHandled(net, m.to, m.author, {m}, r)
NetDeliverSyncInfo(net) ==
    \E m \in env :
        /\ m.kind = "sync_info"
        /\ \E r \in {RM_ProcessSyncInfoMsg(rm[m.to], m.si, None)} :
               NetHandled(net, m.to, m.author, {m}, r)
\* The timer of the round of replica a expires: once in a round.
TimerExpires(net) ==
    \E a \in Authors \ net.silent :
        /\ rm[a].cur <= net.votes
        /\ ~rm[a].vote_sent.timeout
        /\ \E r \in {RM_ProcessLocalTimeout(rm[a], rm[a].cur, None)} :
               NetHandled(net, a, a, {}, r)

\* The happy path: four honest validators, every message delivered, no timer
\* expires.  The rounds up to MaxRound are played: the proposal of round
\* MaxRound + 1 is delivered, the votes for it are not.
HappyNet == [silent |-> {}, proposals |-> MaxRound + 1, votes |-> MaxRound]
HappyInit == NetInit(HappyNet)
HappyNext ==
    \/ NetDeliverProposal(HappyNet)
    \/ NetDeliverVote(HappyNet)
    \/ NetDeliverSyncInfo(HappyNet)
\* The event loop handles every message it has received.
HappySpec == HappyInit /\ [][HappyNext]_vars /\ WF_vars(HappyNext)

\* The first round with a silent leader: the three other validators are
\* honest, their timers expire, every vote is delivered.  The run ends with
\* the round: the messages of the next round are not carried.
TimeoutNet == [silent |-> {LeaderFor(FirstRound)}, proposals |-> FirstRound, votes |-> FirstRound]
TimeoutInit == NetInit(TimeoutNet)
TimeoutNext ==
    \/ TimerExpires(TimeoutNet)
    \/ NetDeliverVote(TimeoutNet)
TimeoutSpec == TimeoutInit /\ [][TimeoutNext]_vars /\ WF_vars(TimeoutNext)

\* ---------------------------------------------------------------- mempool
\* Mempool (core_mempool/mempool.rs).  In MempoolSpec rm is the mempool:
\*   transactions           TransactionStore: the pooled transactions in the
\*                          order iter_queue yields them (highest gas first,
\*                          the earlier insertion first among equals)
\*   sequence_number_cache  TtlCache: its entries, the oldest insertion first
\* metrics_cache only feeds the latency counters and is left out.  last holds
\* the last call: its status (add_txn), its sequence number (a removal), its
\* batch_size and the size of its result (get_block); env counts nothing.
\* Sequence numbers of the transactions submitted, gas prices, the sizes
\* get_block is asked for, and the size of the seen sets it is given.
MaxSeq == 1
MaxGas == 2
MaxBatch == 2
MaxSeen == 1
\* config.mempool.capacity: of the transaction store and of the TTL caches.
Capacity == 2
Accounts == {"A", "B", "C"}
SeqNumbers == 0..MaxSeq
Txns == [address : Accounts, sequence_number : SeqNumbers, gas : 1..MaxGas]
\* TxnPointer::from
TxnPointer(txn) == <<txn.address, txn.sequence_number>>
TxnPointers == Accounts \X SeqNumbers
SeenSets == {seen \in SUBSET TxnPointers : Cardinality(seen) <= MaxSeen}

\* TtlCache::get: an Option, as the set of its values.
TtlCache_Get(cache, key) == {cache[i].value : i \in {j \in DOMAIN cache : cache[j].key = key}}
\* TtlCache::remove: the cache without the entry, and the entry's value.
TtlCache_Remove(cache, key) ==
    [cache |-> SelectSeq(cache, LAMBDA e : e.key # key), value |-> TtlCache_Get(cache, key)]
\* TtlCache::insert: the entry becomes the newest; a new key in a full cache
\* takes the place of the oldest entry.
TtlCache_Insert(cache, key, value) ==
    LET others == SelectSeq(cache, LAMBDA e : e.key # key)
        kept == IF TtlCache_Get(cache, key) = {} /\ Len(cache) >= Capacity
                THEN Tail(cache) ELSE others
    IN  Append(kept, [key |-> key, value |-> value])
\* Option::unwrap_or_default of a sequence number.
UnwrapOrDefault(opt) == IF opt = {} THEN 0 ELSE CHOOSE v \in opt : TRUE

\* TransactionStore::iter_queue
TransactionStore_IterQueue(transactions) == transactions
\* TransactionStore::get: an Option, as the set of its values.
TransactionStore_Get(transactions, ptr) ==
    {transactions[i] : i \in {j \in DOMAIN transactions : TxnPointer(transactions[j]) = ptr}}
\* The queue with txn at its place in the priority order.
TransactionStore_Enqueue(transactions, txn) ==
    LET k == Cardinality({i \in DOMAIN transactions : transactions[i].gas >= txn.gas})
    IN  SubSeq(transactions, 1, k) \o <<txn>> \o SubSeq(transactions, k + 1, Len(transactions))
\* TransactionStore::insert: a transaction of the same account and sequence
\* number is replaced by one of a higher gas price; a full store refuses the
\* transaction or evicts its lowest-priority entry for it.
TransactionStore_Insert(transactions, txn, evicts) ==
    LET others == SelectSeq(transactions, LAMBDA t : TxnPointer(t) # TxnPointer(txn))
        old == TransactionStore_Get(transactions, TxnPointer(txn))
    IN  IF old # {}
        THEN IF \A t \in old : txn.gas > t.gas
             THEN [transactions |-> TransactionStore_Enqueue(others, txn), status |-> "Valid"]
             ELSE [transactions |-> transactions, status |-> "InvalidUpdate"]
        ELSE IF Len(transactions) >= Capacity
        THEN IF evicts
             THEN [transactions |-> TransactionStore_Enqueue(
                                        SubSeq(transactions, 1, Len(transactions) - 1), txn),
                   status |-> "Valid"]
             ELSE [transactions |-> transactions, status |-> "MempoolIsFull"]
        ELSE [transactions |-> TransactionStore_Enqueue(transactions, txn), status |-> "Valid"]
\* TransactionStore::commit_transaction: the transactions of the account
\* below its new sequence number leave the store.
TransactionStore_CommitTransaction(transactions, account, account_sequence_number) ==
    SelectSeq(transactions, LAMBDA t :
        ~(t.address = account /\ t.sequence_number < account_sequence_number))
\* TransactionStore::reject_transaction: the transaction and the later ones
\* of the account leave the store.
TransactionStore_RejectTransaction(transactions, account, sequence_number) ==
    SelectSeq(transactions, LAMBDA t :
        ~(t.address = account /\ t.sequence_number >= sequence_number))

\* remove_transaction that rejects only above the cached sequence number.
Mempool_RemoveTransaction_RejectAbove(mp, sender, sequence_number, is_rejected) ==
    LET removed == TtlCache_Remove(mp.sequence_number_cache, sender)
        current_seq_number == UnwrapOrDefault(removed.value)
        new_seq_number == Max(current_seq_number, sequence_number + 1)
    IN  IF is_rejected
        THEN IF sequence_number > current_seq_number
             THEN [transactions |-> TransactionStore_RejectTransaction(
                                        mp.transactions, sender, sequence_number),
                   sequence_number_cache |-> removed.cache]
             ELSE [transactions |-> mp.transactions,
                   sequence_number_cache |-> removed.cache]
        ELSE [transactions |-> TransactionStore_CommitTransaction(
                                   mp.transactions, sender, new_seq_number),
              sequence_number_cache |->
                  TtlCache_Insert(removed.cache, sender, new_seq_number)]
\* remove_transaction that caches sequence_number + 1 whatever was cached.
Mempool_RemoveTransaction_NoMax(mp, sender, sequence_number, is_rejected) ==
    LET removed == TtlCache_Remove(mp.sequence_number_cache, sender)
        current_seq_number == UnwrapOrDefault(removed.value)
        new_seq_number == sequence_number + 1
    IN  IF is_rejected
        THEN IF sequence_number >= current_seq_number
             THEN [transactions |-> TransactionStore_RejectTransaction(
                                        mp.transactions, sender, sequence_number),
                   sequence_number_cache |-> removed.cache]
             ELSE [transactions |-> mp.transactions,
                   sequence_number_cache |-> removed.cache]
        ELSE [transactions |-> TransactionStore_CommitTransaction(
                                   mp.transactions, sender, new_seq_number),
              sequence_number_cache |->
                  TtlCache_Insert(removed.cache, sender, new_seq_number)]
\* Mempool::remove_transaction
Mempool_RemoveTransaction(mp, sender, sequence_number, is_rejected) ==
    LET removed == TtlCache_Remove(mp.sequence_number_cache, sender)
        current_seq_number == UnwrapOrDefault(removed.value)
        new_seq_number == Max(current_seq_number, sequence_number + 1)
    IN  IF is_rejected
        THEN IF sequence_number >= current_seq_number
             THEN [transactions |-> TransactionStore_RejectTransaction(
                                        mp.transactions, sender, sequence_number),
                   sequence_number_cache |-> removed.cache]
             ELSE [transactions |-> mp.transactions,
                   sequence_number_cache |-> removed.cache]
        ELSE [transactions |-> TransactionStore_CommitTransaction(
                                   mp.transactions, sender, new_seq_number),
              sequence_number_cache |->
                  TtlCache_Insert(removed.cache, sender, new_seq_number)]

\* add_txn that caches the sequence number of the database as it comes.
Mempool_AddTxn_CacheDb(mp, txn, db_sequence_number, evicts) ==
    LET cached_value == TtlCache_Get(mp.sequence_number_cache, txn.address)
        sequence_number == IF cached_value = {} THEN db_sequence_number
                           ELSE Max(UnwrapOrDefault(cached_value), db_sequence_number)
        cache == TtlCache_Insert(mp.sequence_number_cache, txn.address, db_sequence_number)
        ins == TransactionStore_Insert(mp.transactions, txn, evicts)
    IN  IF txn.sequence_number < sequence_number
        THEN [mp |-> [transactions |-> mp.transactions, sequence_number_cache |-> cache],
              status |-> "InvalidSeqNumber", inserted |-> FALSE]
        ELSE [mp |-> [transactions |-> ins.transactions, sequence_number_cache |-> cache],
              status |-> ins.status, inserted |-> TRUE]
\* add_txn that validates against the sequence number of the database alone.
Mempool_AddTxn_DbOnly(mp, txn, db_sequence_number, evicts) ==
    LET cache == TtlCache_Insert(mp.sequence_number_cache, txn.address, db_sequence_number)
        ins == TransactionStore_Insert(mp.transactions, txn, evicts)
    IN  IF txn.sequence_number < db_sequence_number
        THEN [mp |-> [transactions |-> mp.transactions, sequence_number_cache |-> cache],
              status |-> "InvalidSeqNumber", inserted |-> FALSE]
        ELSE [mp |-> [transactions |-> ins.transactions, sequence_number_cache |-> cache],
              status |-> ins.status, inserted |-> TRUE]
\* Mempool::add_txn
Mempool_AddTxn(mp, txn, db_sequence_number, evicts) ==
    LET cached_value == TtlCache_Get(mp.sequence_number_cache, txn.address)
        sequence_number == IF cached_value = {} THEN db_sequence_number
                           ELSE Max(UnwrapOrDefault(cached_value), db_sequence_number)
        cache == TtlCache_Insert(mp.sequence_number_cache, txn.address, sequence_number)
        ins == TransactionStore_Insert(mp.transactions, txn, evicts)
    IN  IF txn.sequence_number < sequence_number
        THEN [mp |-> [transactions |-> mp.transactions, sequence_number_cache |-> cache],
              status |-> "InvalidSeqNumber", inserted |-> FALSE]
        ELSE [mp |-> [transactions |-> ins.transactions, sequence_number_cache |-> cache],
              status |-> ins.status, inserted |-> TRUE]

\* A push that puts the pointer at the front of result.
GetBlock_Push_Front(s, ptr) == [s EXCEPT !.seen = @ \cup {ptr}, !.result = <<ptr>> \o @]
\* Mempool::get_block: the scratch state of a call (seen, skipped, result)
\* and whether the main loop has been left.
GetBlock_Push(s, ptr) == [s EXCEPT !.seen = @ \cup {ptr}, !.result = Append(@, ptr)]
\* The test that takes no transaction for seen.
GetBlock_Seen_Never(s, txn) == FALSE
\* The transaction is one the caller has seen or the call has selected.
GetBlock_Seen(s, txn) == TxnPointer(txn) \in s.seen
\* The test that includes every transaction at or above the cached sequence
\* number of its account.
GetBlock_Include_AtOrAbove(mp, s, txn) ==
    LET seq == txn.sequence_number
        account_sequence_number == TtlCache_Get(mp.sequence_number_cache, txn.address)
        seen_previous == seq > 0 /\ <<txn.address, seq - 1>> \in s.seen
    IN  seen_previous \/ \E c \in account_sequence_number : c <= seq
\* The transaction is the next of its account, or its ancestor has been seen.
GetBlock_Include(mp, s, txn) ==
    LET seq == txn.sequence_number
        account_sequence_number == TtlCache_Get(mp.sequence_number_cache, txn.address)
        seen_previous == seq > 0 /\ <<txn.address, seq - 1>> \in s.seen
    IN  seen_previous \/ account_sequence_number = {seq}
\* The result has the size asked for.
\* A test of the batch size that lets one transaction too many through.
GetBlock_Full_Late(result, batch_size) == Len(result) > batch_size
GetBlock_Full(result, batch_size) == Len(result) = batch_size
\* The inner loop: the skipped transactions of the account from seq on.
RECURSIVE GetBlock_Skipped(_, _, _, _)
GetBlock_Skipped(s, address, seq, batch_size) ==
    IF <<address, seq>> \in s.skipped
    THEN LET s1 == GetBlock_Push(s, <<address, seq>>)
         IN  IF GetBlock_Full(s1.result, batch_size) THEN [s1 EXCEPT !.stop = TRUE]
             ELSE GetBlock_Skipped(s1, address, seq + 1, batch_size)
    ELSE s
\* The main loop, from the i-th transaction of the queue on.
RECURSIVE GetBlock_Main(_, _, _, _, _)
GetBlock_Main(mp, queue, i, batch_size, s) ==
    IF i > Len(queue) \/ s.stop THEN s
    ELSE LET txn == queue[i]
             s1 == GetBlock_Push(s, TxnPointer(txn))
         IN  IF GetBlock_Seen(s, txn)
             THEN GetBlock_Main(mp, queue, i + 1, batch_size, s)
             ELSE IF GetBlock_Include(mp, s, txn)
             THEN IF GetBlock_Full(s1.result, batch_size) THEN [s1 EXCEPT !.stop = TRUE]
                  ELSE GetBlock_Main(mp, queue, i + 1, batch_size,
                           GetBlock_Skipped(s1, txn.address, txn.sequence_number + 1,
                                            batch_size))
             ELSE GetBlock_Main(mp, queue, i + 1, batch_size,
                      [s EXCEPT !.skipped = @ \cup {TxnPointer(txn)}])
\* The pointers of result whose transaction the store holds, as transactions.
RECURSIVE GetBlock_FilterMap(_, _)
GetBlock_FilterMap(transactions, result) ==
    IF result = <<>> THEN <<>>
    ELSE LET txn == TransactionStore_Get(transactions, Head(result))
             rest == GetBlock_FilterMap(transactions, Tail(result))
         IN  IF txn = {} THEN rest ELSE <<CHOOSE t \in txn : TRUE>> \o rest
\* get_block whose skipped set leaks: the parked transactions leave the store.
Mempool_GetBlock_Leaky(mp, batch_size, seen) ==
    LET s == GetBlock_Main(mp, TransactionStore_IterQueue(mp.transactions), 1, batch_size,
                           [seen |-> seen, skipped |-> {}, result |-> <<>>, stop |-> FALSE])
    IN  [mp |-> [mp EXCEPT !.transactions =
                               SelectSeq(@, LAMBDA t : TxnPointer(t) \notin s.skipped)],
         block |-> GetBlock_FilterMap(mp.transactions, s.result),
         seen |-> s.seen, skipped |-> s.skipped]
Mempool_GetBlock(mp, batch_size, seen) ==
    LET s == GetBlock_Main(mp, TransactionStore_IterQueue(mp.transactions), 1, batch_size,
                           [seen |-> seen, skipped |-> {}, result |-> <<>>, stop |-> FALSE])
    IN  [mp |-> mp, block |-> GetBlock_FilterMap(mp.transactions, s.result),
         seen |-> s.seen, skipped |-> s.skipped]

\* Mempool::new
NewMempool == [transactions |-> <<>>, sequence_number_cache |-> <<>>]
\* The sequence number of an account in the database.
DbSeqNumbers == 0..MaxSeq
MempoolInit ==
    /\ rm = NewMempool
    /\ last = [op |-> "new", status |-> None, arg |-> 0, size |-> 0]
    /\ env = [faults |-> 0, restarts |-> 0]
AddTxn ==
    \E txn \in Txns, db_sequence_number \in DbSeqNumbers, evicts \in BOOLEAN :
        LET r == Mempool_AddTxn(rm, txn, db_sequence_number, evicts)
        IN  /\ rm' = r.mp
            /\ last' = [op |-> "add_txn", status |-> r.status, arg |-> 0, size |-> 0]
            /\ env' = env
RemoveTransaction ==
    \E sender \in Accounts, sequence_number \in SeqNumbers, is_rejected \in BOOLEAN :
        /\ rm' = Mempool_RemoveTransaction(rm, sender, sequence_number, is_rejected)
        /\ last' = [op |-> IF is_rejected THEN "reject" ELSE "commit", status |-> None,
                    arg |-> sequence_number, size |-> 0]
        /\ env' = env
GetBlock ==
    \E batch_size \in 0..MaxBatch, seen \in SeenSets :
        LET r == Mempool_GetBlock(rm, batch_size, seen)
        IN  /\ rm' = r.mp
            /\ last' = [op |-> "get_block", status |-> None,
                        arg |-> batch_size, size |-> Len(r.block)]
            /\ env' = env
MempoolNext ==
    \/ AddTxn
    \/ RemoveTransaction
    \/ GetBlock
MempoolSpec == MempoolInit /\ [][MempoolNext]_vars

\* get_block reads the store and the cache and is a function of them, of
\* batch_size and of seen.  GetBlockSpec runs it on the pools of up to
\* MaxPool transactions of two accounts in every priority order, with every
\* cached sequence number, in a mempool whose capacity they do not exceed.
MaxPool == 3
PoolAccounts == <<"A", "B">>
PoolPointers == {PoolAccounts[i] : i \in DOMAIN PoolAccounts} \X (0..(MaxPool - 1))
\* The i-th transaction of a queue: the gas price falls along the queue.
PoolTxn(ptr, i) ==
    [address |-> ptr[1], sequence_number |-> ptr[2], gas |-> Max(1, MaxGas + 1 - i)]
PoolQueues ==
    UNION {{[i \in 1..n |-> PoolTxn(f[i], i)] :
               f \in {g \in [1..n -> PoolPointers] :
                         \A i, j \in 1..n : g[i] = g[j] => i = j}} : n \in 0..MaxPool}
\* The caches: for each account no entry (-1) or a sequence number.
PoolCaches ==
    {SelectSeq([i \in DOMAIN PoolAccounts |-> [key |-> PoolAccounts[i], value |-> c[i]]],
               LAMBDA e : e.value >= 0) :
        c \in [DOMAIN PoolAccounts -> (0 - 1)..MaxPool]}
PoolSeenSets == {seen \in SUBSET PoolPointers : Cardinality(seen) <= MaxSeen}
GetBlockInit ==
    /\ rm \in [transactions : PoolQueues, sequence_number_cache : PoolCaches]
    /\ last = [op |-> "new", status |-> None, arg |-> 0, size |-> 0]
    /\ env = [faults |-> 0, restarts |-> 0]
GetBlockOfPool ==
    \E batch_size \in 0..MaxBatch, seen \in PoolSeenSets :
        LET r == Mempool_GetBlock(rm, batch_size, seen)
        IN  /\ rm' = r.mp
            /\ last' = [op |-> "get_block", status |-> None,
                        arg |-> batch_size, size |-> Len(r.block)]
            /\ env' = env
GetBlockNext == GetBlockOfPool
GetBlockSpec == GetBlockInit /\ [][GetBlockNext]_vars
\* ----------------------------------------------------------------- claims
\* The claims about a handler are stated over every input the environment
\* can hand to it in the current state, with every failure it can meet: the
\* handler's result, the state it leaves and the calls it made.
Sends(log) == {i \in DOMAIN log : log[i].op \in {"send_vote", "broadcast_vote"}}
SameVoteData(a, b) == a.author = b.author /\ a.block = b.block
\* The blocks execute_and_vote can be handed: a proposal or a NIL block.
VoteBlocks == Blocks \ {Genesis}
\* The rounds a timer can name: every round the replica can be in, and one
\* below and one above.
TimerRounds == 0..(MaxRound + 2)

\* C1: no equivocation.  Over any sequence of events and restarts the
\* replica signs votes for at most one block in a round; execute_and_vote
\* signs only a block of the current round and only when no vote has been
\* sent in it; a local timeout in a round where a vote has been sent signs
\* no vote and broadcasts the vote that was sent.
C1_NoEquivocation ==
    /\ \A a, b \in rm.signed : a.round = b.round => a.block = b.block
    /\ \A block \in VoteBlocks, fault \in ProposalFaults :
          LET r == RM_ExecuteAndVote(rm, block, fault)
          IN  HasOp(r.st.log, "sign_vote") =>
                  block.round = rm.cur /\ rm.vote_sent = NoVote
    /\ \A round \in TimerRounds, fault \in TimeoutFaults :
          LET r == RM_ProcessLocalTimeout(rm, round, fault)
          IN  (round = rm.cur /\ rm.vote_sent # NoVote) =>
                  /\ ~HasOp(r.st.log, "sign_vote")
                  /\ \A i \in Sends(r.st.log) :
                         r.st.log[i].vote.block = rm.vote_sent.block
\* The replica voted for a proposal, was restarted, and its timeout
\* broadcast that same vote.
C1_Witness ==
    /\ last.err = None
    /\ env.restarts = 1
    /\ rm.vote_sent.timeout /\ rm.vote_sent.block.kind = "P"
    /\ rm.signed = {[round |-> rm.vote_sent.block.round, block |-> rm.vote_sent.block]}

\* The vote that was signed in the handler is not recorded and not sent.
C2_NotRecorded(r) ==
    /\ HasOp(r.st.log, "sign_vote")
    /\ \A i \in DOMAIN r.st.log :
          r.st.log[i].op = "sign_vote" => r.st.vote_sent # r.st.log[i].vote
    /\ Sends(r.st.log) = {} /\ ~HasOp(r.st.log, "record_vote")
\* C2: a vote is persisted before it is transmitted.  At every send_vote and
\* broadcast_vote the vote in storage is the transmitted vote (the timeout
\* signature, added after the vote was persisted, apart); when save_vote
\* fails the vote is neither recorded nor transmitted.
C2_PersistedBeforeSent ==
    /\ \A msg \in ProposalMsgs(rm), fault \in ProposalFaults :
          LET r == RM_ProcessProposalMsg(rm, msg, fault)
          IN  /\ \A i \in Sends(r.st.log) :
                     SameVoteData(r.st.log[i].saved, r.st.log[i].vote)
              /\ r.err = "save_vote" => C2_NotRecorded(r)
    /\ \A round \in TimerRounds, fault \in TimeoutFaults :
          LET r == RM_ProcessLocalTimeout(rm, round, fault)
          IN  /\ \A i \in Sends(r.st.log) :
                     SameVoteData(r.st.log[i].saved, r.st.log[i].vote)
              /\ r.err = "save_vote" => C2_NotRecorded(r)
\* A proposal was voted on: the vote sent is the vote in storage.
C2_Witness ==
    /\ last.err = None /\ env.restarts = 0
    /\ rm.vote_sent # NoVote /\ rm.saved = rm.vote_sent /\ rm.vote_sent.block.kind = "P"

\* The calls of a handler, in order: every send of a vote v comes after a
\* record_vote of v, and RoundState.vote_sent is v when v is sent.
C3_Recorded(log) ==
    \A i \in Sends(log) :
        /\ \E j \in 1..(i - 1) : log[j].op = "record_vote" /\ log[j].vote = log[i].vote
        /\ log[i].vote_sent = log[i].vote
\* C3: a vote is recorded before it is sent.  Every send_vote and
\* broadcast_vote of a vote v follows a record_vote of v in the same handler,
\* and RoundState.vote_sent is v at the send.
C3_RecordedBeforeSent ==
    /\ \A msg \in ProposalMsgs(rm), fault \in ProposalFaults :
          C3_Recorded(RM_ProcessProposalMsg(rm, msg, fault).st.log)
    /\ \A round \in TimerRounds, fault \in TimeoutFaults :
          C3_Recorded(RM_ProcessLocalTimeout(rm, round, fault).st.log)
\* A timeout without an earlier vote: the NIL vote was recorded and
\* broadcast.
C3_Witness ==
    /\ last.err = None
    /\ rm.vote_sent.timeout /\ rm.vote_sent.block.kind = "NIL"

\* C4: current_round never decreases over the events the handlers process
\* (proposals, votes, sync infos, local timeouts, block retrievals), whether
\* the handler returns Ok or an error.
C4_RoundMonotone == [][env'.restarts = env.restarts => rm'.cur >= rm.cur]_vars
\* A proposal handler advanced the round in sync_up and then returned an
\* error.
C4_Witness == last.err = "round_after_sync" /\ rm.cur > 1 /\ env.restarts = 0

Certified(st) == 1 + HighestRound(BS_SyncInfo(st))
\* C5 as it is stated: whenever a handler returns Ok, current_round is
\* 1 + max(highest_qc.round, highest_tc.round) of the block store.
C5_RoundMatchesStoreAfterOk == last.err = None => rm.cur = Certified(rm)
\* What holds of a handler's result r from the state st.
C5_Handler(st, r) ==
    /\ r.st.cur # st.cur => HasOp(r.st.log, "process_certificates")
    /\ (r.ok /\ BS_SyncInfo(r.st) # BS_SyncInfo(st)) => HasOp(r.st.log, "process_certificates")
    /\ (r.ok /\ HasOp(r.st.log, "process_certificates")) => r.st.cur = Certified(r.st)
\* C5: process_certificates is the only path that changes current_round
\* after start and it runs in the handler that changes the certificates of
\* the block store; current_round is never ahead of 1 + max(highest_qc.round,
\* highest_tc.round) of the block store and equals it when a handler in
\* which process_certificates ran returns Ok.  (It stays behind after
\* process_certificates has failed on the safety rules.)
C5_RoundFollowsCertificates ==
    /\ rm.cur <= Certified(rm)
    /\ \A msg \in ProposalMsgs(rm), fault \in ProposalFaults :
          C5_Handler(rm, RM_ProcessProposalMsg(rm, msg, fault))
    /\ \A msg \in VoteMsgs(rm), fault \in VoteFaults :
          C5_Handler(rm, RM_ProcessVote(rm, msg, fault))
    /\ \A si \in SyncInfos, fault \in SyncInfoFaults :
          C5_Handler(rm, RM_ProcessSyncInfoMsg(rm, si, fault))
    /\ \A round \in TimerRounds, fault \in TimeoutFaults :
          C5_Handler(rm, RM_ProcessLocalTimeout(rm, round, fault))
    /\ \A req \in RetrievalRequests, fault \in RetrievalFaults :
          C5_Handler(rm, RM_ProcessBlockRetrieval(rm, req.id, req.num_blocks, fault))
\* The safety rules failed in process_certificates after the certificates
\* were stored: the round is behind the block store.
C5_Witness == last.err = "safety_update" /\ rm.cur < Certified(rm)

\* C6: a proposal of a round below current_round, or whose author does not
\* lead the block's round, is rejected before sync_up: the handler returns
\* an error, the replica's state is unchanged and the handler made no call
\* (nothing executed, signed or sent, no sync info reply).
C6_ProposalFiltered ==
    \A msg \in ProposalMsgs(rm), fault \in ProposalFaults :
        (msg.block.round < rm.cur \/ ~IsValidProposal(msg)) =>
            LET r == RM_ProcessProposalMsg(rm, msg, fault)
            IN  ~r.ok /\ r.st = rm /\ r.st.log = <<>>
\* A proposal of the wrong author was rejected.
C6_Witness == last.err = "invalid_proposer"

\* C7: a vote without a timeout signature is processed only by the leader
\* of the round after the vote's; another replica drops it with an error
\* before sync_up, its state unchanged.  A timeout vote is processed
\* whoever leads.
C7_VoteRecipient ==
    \A msg \in VoteMsgs(rm), fault \in VoteFaults :
        LET r == RM_ProcessVote(rm, msg, fault)
            leader == IsValidProposer(Self, msg.vote.block.round + 1)
        IN  IF ~msg.vote.timeout /\ ~leader
            THEN ~r.ok /\ r.err = "not_next_proposer" /\ r.st = rm /\ r.st.log = <<>>
            ELSE r.err # "not_next_proposer" /\ (fault = None => r.ok)
\* A vote sent to a replica that does not lead the next round was dropped.
C7_Witness == last.err = "not_next_proposer"

\* What holds of a handler's result r from the state st when sync_up has
\* failed on the peer's sync info.
C8_SyncFailed(st, r, fault) ==
    /\ ~r.ok /\ r.err = fault
    /\ ~HasOp(r.st.log, "process_certificates")
    /\ r.st.cur = st.cur /\ r.st.vote_sent = st.vote_sent /\ r.st.pending = st.pending
    /\ ~HasOp(r.st.log, "insert_vote")
    /\ ~HasOp(r.st.log, "execute") /\ ~HasOp(r.st.log, "sign_vote") /\ Sends(r.st.log) = {}
\* C8: when sync_up fails (the sync info does not verify, or its
\* certificates cannot be added) the handler returns the error,
\* process_certificates is not run, RoundState is unchanged, the vote is not
\* inserted, the proposed block is neither executed nor voted on.
C8_SyncUpFailure ==
    /\ \A msg \in ProposalMsgs(rm), fault \in {"verify", "add_certs"} :
          (/\ msg.block.round >= rm.cur /\ IsValidProposal(msg)
           /\ HasNewerCertificates(msg.si, BS_SyncInfo(rm))) =>
              C8_SyncFailed(rm, RM_ProcessProposalMsg(rm, msg, fault), fault)
    /\ \A msg \in VoteMsgs(rm), fault \in {"verify", "add_certs"} :
          (/\ msg.vote.timeout \/ IsValidProposer(Self, msg.vote.block.round + 1)
           /\ HasNewerCertificates(msg.si, BS_SyncInfo(rm))) =>
              C8_SyncFailed(rm, RM_ProcessVote(rm, msg, fault), fault)
    /\ \A si \in SyncInfos, fault \in {"verify", "add_certs"} :
          HasNewerCertificates(si, BS_SyncInfo(rm)) =>
              C8_SyncFailed(rm, RM_ProcessSyncInfoMsg(rm, si, fault), fault)
\* A sync info whose certificates could not be added.
C8_Witness == last.err = "add_certs"

\* C9: sync_up sends the local sync info back exactly when help_remote is
\* set and the local sync info has newer certificates than the peer's, and
\* then once; the handler of a SyncInfo message sends no sync info, so a
\* reply is never answered.
C9_NoPingPong ==
    /\ \A si \in SyncInfos, help_remote \in BOOLEAN, fault \in SyncInfoFaults :
          LET r == RM_SyncUp(rm, si, help_remote, fault)
              sent == {i \in DOMAIN r.st.log : r.st.log[i].op = "send_sync_info"}
          IN  /\ Cardinality(sent) =
                     IF help_remote /\ HasNewerCertificates(BS_SyncInfo(rm), si) THEN 1 ELSE 0
              /\ \A i \in sent : r.st.log[i].si = BS_SyncInfo(rm)
    /\ \A si \in SyncInfos, fault \in SyncInfoFaults :
          ~HasOp(RM_ProcessSyncInfoMsg(rm, si, fault).st.log, "send_sync_info")
\* A message with a stale sync info was answered with the local sync info.
C9_Witness == last.reply

\* C10: a local timeout of a round other than current_round is a no-op: the
\* handler returns an error, the replica's state is unchanged and the
\* handler made no call (no NIL block, nothing signed, nothing broadcast).
C10_StaleTimeout ==
    \A round \in TimerRounds, fault \in TimeoutFaults :
        round # rm.cur =>
            LET r == RM_ProcessLocalTimeout(rm, round, fault)
            IN  ~r.ok /\ r.err = "stale_timeout" /\ r.st = rm /\ r.st.log = <<>>
\* The timer of a round that has ended fired.
C10_Witness == last.err = "stale_timeout"

\* C11: a local timeout of the current round r.  When a vote was sent in r
\* the handler generates no NIL block and signs no vote, and the vote it
\* broadcasts has the block of the vote sent; otherwise the vote is on a NIL
\* block of round r.  The vote recorded and broadcast (once, to all) carries a
\* timeout signature, and sign_timeout is called exactly when the vote had
\* none.
C11_TimeoutVote ==
    \A round \in TimerRounds, fault \in TimeoutFaults :
        LET r == RM_ProcessLocalTimeout(rm, round, fault)
            log == r.st.log
            voted == rm.vote_sent # NoVote
        IN  round = rm.cur =>
              /\ voted => ~HasOp(log, "gen_nil") /\ ~HasOp(log, "sign_vote")
              /\ r.ok =>
                    /\ Cardinality(Sends(log)) = 1
                    /\ \A i \in Sends(log) :
                          /\ log[i].op = "broadcast_vote"
                          /\ log[i].vote.timeout
                          /\ log[i].vote = r.st.vote_sent
                          /\ log[i].vote.block.round = round
                          /\ IF voted
                             THEN SameVoteData(log[i].vote, rm.vote_sent)
                             ELSE /\ log[i].vote.block.kind = "NIL"
                                  /\ HasOp(log, "gen_nil") /\ HasOp(log, "sign_vote")
                    /\ HasOp(log, "sign_timeout") <=> ~(voted /\ rm.vote_sent.timeout)
\* The round timed out after the replica had voted for the proposal, no
\* failure and no restart before: the vote sent is that vote, with a timeout
\* signature.
C11_Witness ==
    /\ last.err = None /\ env.faults = 0 /\ env.restarts = 0
    /\ rm.vote_sent.timeout /\ rm.vote_sent.block.kind = "P"
    /\ rm.vote_sent.block.round = rm.cur /\ rm.saved = [rm.vote_sent EXCEPT !.timeout = FALSE]

\* execute_and_vote on block from st reaches construct_and_sign_vote, and the
\* safety rules refuse.
C12_Vetoed(st, block, fault) ==
    /\ BS_ExecuteAndInsertBlock(st, block, fault = "execute").ok
    /\ block.round = st.cur /\ st.vote_sent = NoVote
    /\ fault \notin {"wait_max", "wait_failed"}
    /\ ~SR_ConstructAndSignVote(st, block, fault = "sign_vote").ok
\* What holds of the result r of a handler that called execute_and_vote from
\* st and met the refusal.
C12_NoVote(st, r) ==
    /\ ~r.ok /\ r.err = "safety_vote"
    /\ ~HasOp(r.st.log, "sign_vote") /\ ~HasOp(r.st.log, "save_vote")
    /\ ~HasOp(r.st.log, "record_vote") /\ Sends(r.st.log) = {}
    /\ r.st.saved = st.saved /\ r.st.vote_sent = st.vote_sent /\ r.st.signed = st.signed
    /\ r.st.lvr = st.lvr /\ r.st.pr = st.pr
\* C12: when construct_and_sign_vote refuses the vote proposal, the handler
\* (of a proposal, or of a local timeout voting on a NIL block) returns an
\* error and the replica does not vote: nothing is persisted with save_vote,
\* recorded in RoundState or sent, and last_voted_round and preferred_round
\* are what they were when execute_and_vote was called.
C12_SafetyVeto ==
    /\ \A block \in VoteBlocks, fault \in ProposalFaults :
          C12_Vetoed(rm, block, fault) =>
              C12_NoVote(rm, RM_ProcessProposedBlock(rm, block, fault))
    /\ \A msg \in ProposalMsgs(rm), fault \in ProposalFaults :
          LET p == RM_PreProcessProposal(rm, msg, fault)
          IN  (p.ok /\ C12_Vetoed(p.st, msg.block, fault)) =>
                  C12_NoVote(p.st, RM_ProcessProposalMsg(rm, msg, fault))
    /\ \A round \in TimerRounds, fault \in TimeoutFaults :
          LET n == PG_GenerateNilBlock(rm, round, fault = "gen_nil")
          IN  (round = rm.cur /\ n.ok /\ C12_Vetoed(rm, n.block, fault)) =>
                  C12_NoVote(rm, RM_ProcessLocalTimeout(rm, round, fault))
\* The safety rules refused a vote on their own rule: last_voted_round had
\* reached the round in an earlier handler that failed after signing.
C12_Witness ==
    /\ last.err = "safety_vote" /\ env.restarts = 0
    /\ rm.lvr = rm.cur /\ rm.vote_sent = NoVote

\* The replica has voted in its round for a block other than the block of
\* msg, a proposal of that round by the round's leader.
C13_SecondProposal(st, msg) ==
    /\ st.vote_sent # NoVote
    /\ msg.block.round = st.vote_sent.block.round
    /\ msg.block # st.vote_sent.block
    /\ IsValidProposal(msg)
\* C13 as it is stated: processing the second proposal emits no vote and
\* makes no txn_manager.commit call.
C13_TxnPoolUntouched ==
    \A msg \in ProposalMsgs(rm), fault \in ProposalFaults :
        C13_SecondProposal(rm, msg) =>
            LET r == RM_ProcessProposalMsg(rm, msg, fault)
            IN  Sends(r.st.log) = {} /\ ~HasOp(r.st.log, "txn_commit")
\* C13: processing a second proposal of a round in which the replica has
\* voted emits no vote: the handler returns an error, signs, records and
\* sends nothing and the vote sent stays.  When the proposal is still of the
\* current round after sync_up and executes, it is inserted in the block
\* store and txn_manager.commit is called for it, before execute_and_vote
\* fails on the vote already sent.
C13_NoSecondVote ==
    \A msg \in ProposalMsgs(rm), fault \in ProposalFaults :
        C13_SecondProposal(rm, msg) =>
            LET r == RM_ProcessProposalMsg(rm, msg, fault)
                log == r.st.log
            IN  /\ ~r.ok /\ Sends(log) = {}
                /\ ~HasOp(log, "sign_vote") /\ ~HasOp(log, "record_vote")
                /\ r.st.saved = rm.saved /\ r.st.lvr = rm.lvr
                /\ r.st.cur = rm.cur => r.st.vote_sent = rm.vote_sent
                /\ r.err = "already_voted" <=>
                       \E i \in DOMAIN log : log[i].op = "txn_commit" /\ log[i].block = msg.block
                /\ r.err = "already_voted" => msg.block \in r.st.blocks
\* A second proposal of the round was executed and refused: it is in the
\* block store beside the block voted for.
C13_Witness ==
    /\ last.err = "already_voted"
    /\ \E b \in rm.blocks : b.round = rm.cur /\ b.kind = "P" /\ b # rm.vote_sent.block

\* The two errors of wait_before_vote_if_needed: MaxWaitExceeded, WaitFailed.
WaitingErrors == {"wait_max", "wait_failed"}
\* execute_and_vote on block from st reaches the wait for the block's
\* timestamp.
C14_Waits(st, block) ==
    /\ BS_ExecuteAndInsertBlock(st, block, FALSE).ok
    /\ block.round = st.cur /\ st.vote_sent = NoVote
\* What holds of the result r of a handler that called execute_and_vote from
\* st when the wait failed with the error fault.
C14_Aborted(st, r, fault) ==
    /\ ~r.ok /\ r.err = fault
    /\ ~HasOp(r.st.log, "sign_vote") /\ ~HasOp(r.st.log, "save_vote")
    /\ ~HasOp(r.st.log, "record_vote") /\ Sends(r.st.log) = {}
    /\ r.st.lvr = st.lvr /\ r.st.signed = st.signed
    /\ r.st.saved = st.saved /\ r.st.vote_sent = st.vote_sent
\* C14: when the wait for the block's timestamp ends with MaxWaitExceeded or
\* WaitFailed, execute_and_vote aborts before construct_and_sign_vote:
\* last_voted_round is unchanged and no vote for the block is persisted,
\* recorded or sent.
C14_WaitAborts ==
    /\ \A block \in VoteBlocks, fault \in WaitingErrors :
          C14_Waits(rm, block) =>
              C14_Aborted(rm, RM_ProcessProposedBlock(rm, block, fault), fault)
    /\ \A msg \in ProposalMsgs(rm), fault \in WaitingErrors :
          LET p == RM_PreProcessProposal(rm, msg, fault)
          IN  (p.ok /\ C14_Waits(p.st, msg.block)) =>
                  C14_Aborted(p.st, RM_ProcessProposalMsg(rm, msg, fault), fault)
    /\ \A round \in TimerRounds, fault \in WaitingErrors :
          LET n == PG_GenerateNilBlock(rm, round, FALSE)
          IN  (round = rm.cur /\ n.ok /\ C14_Waits(rm, n.block)) =>
                  C14_Aborted(rm, RM_ProcessLocalTimeout(rm, round, fault), fault)
\* The wait for a proposal's timestamp would have passed the round's deadline:
\* the replica has not voted in the round.
C14_Witness ==
    /\ last.err = "wait_max"
    /\ rm.lvr < rm.cur /\ rm.vote_sent = NoVote /\ rm.saved = NoVote
    /\ \E b \in rm.blocks : b.round = rm.cur

\* The broadcasts of a proposal among the calls of a handler.
Proposals(log) == {i \in DOMAIN log : log[i].op = "broadcast_proposal"}
\* What holds of the calls of a handler: a proposal is broadcast only for
\* the round of a NewRoundEvent processed before it in the handler, only
\* when this replica leads that round and after sign_proposal has signed the
\* block; an event of a round the replica does not lead is followed by no
\* broadcast; at most one proposal is broadcast.
C15_Proposes(log) ==
    /\ \A i \in Proposals(log) :
          /\ IsValidProposer(Self, log[i].block.round)
          /\ \E j \in 1..(i - 1) :
                 log[j].op = "new_round" /\ log[j].round = log[i].block.round
          /\ \E j \in 1..(i - 1) :
                 log[j].op = "sign_proposal" /\ log[j].block = log[i].block
    /\ (\A j \in DOMAIN log : log[j].op = "new_round" => ~IsValidProposer(Self, log[j].round))
          => Proposals(log) = {}
    /\ Cardinality(Proposals(log)) <= 1
\* The proposals of a handler are of a round in which st has proposed
\* nothing.
C15_NewRound(st, log) ==
    \A i \in Proposals(log) : \A b \in st.proposed : b.round # log[i].block.round
C16_SucceededChain ==
    last.resp.status = "Succeeded" =>
        LET blocks == last.resp.blocks
        IN  /\ Len(blocks) = last.req.num_blocks
            /\ blocks[1] = last.req.id
            /\ \A i \in 2..Len(blocks) : blocks[i] = ParentId(blocks[i - 1])
            /\ \A i \in 1..Len(blocks) : blocks[i] \in rm.blocks
\* A request for two blocks was served with a block and its parent.
C16_Witness ==
    /\ last.resp.status = "Succeeded" /\ last.req.num_blocks = 2
    /\ last.resp.blocks = <<last.req.id, ParentOf(last.req.id)>>

\* The chain of the blocks of the store from id toward the root: empty when
\* id is not in the store.
RECURSIVE ChainFrom(_, _)
ChainFrom(store, id) ==
    IF id \in store THEN <<id>> \o ChainFrom(store, ParentId(id)) ELSE <<>>
\* C17 as it is stated, in its first part: the status is IdNotFound if and
\* only if the requested id is not in the block store.
C17_IdNotFoundIffUnknown ==
    last.resp.status # "none" =>
        (last.resp.status = "IdNotFound" <=> last.req.id \notin rm.blocks)
\* C17: the status is IdNotFound, with an empty list, if and only if the
\* requested id is not in the store or num_blocks = 0; NotEnoughBlocks, with
\* the whole chain from the id, if and only if the id is in the store,
\* num_blocks >= 1 and that chain has fewer than num_blocks blocks;
\* Succeeded, with the first num_blocks blocks of the chain, otherwise.
C17_RetrievalStatus ==
    last.resp.status # "none" =>
        LET n == last.req.num_blocks
            chain == ChainFrom(rm.blocks, last.req.id)
        IN  last.resp =
                IF n = 0 \/ last.req.id \notin rm.blocks
                THEN [status |-> "IdNotFound", blocks |-> <<>>]
                ELSE IF Len(chain) < n
                THEN [status |-> "NotEnoughBlocks", blocks |-> chain]
                ELSE [status |-> "Succeeded", blocks |-> SubSeq(chain, 1, n)]
\* A request for no block of a block that is in the store was answered
\* IdNotFound.
C17_Witness ==
    /\ last.resp.status = "IdNotFound"
    /\ last.req.num_blocks = 0 /\ last.req.id \in rm.blocks

\* The three checks of RecoveryManager::sync_up on the sync info handled
\* last.
C18_Passed ==
    /\ last.si.valid
    /\ HighestRound(last.si) > rm.last_committed_round
    /\ last.si.epoch = rm.epoch
\* C18: RecoveryManager calls fast_forward_sync, on the highest commit
\* certificate of the message's sync info and with the message's author as
\* the peer, exactly when the sync info verifies, its highest round is above
\* last_committed_round and its epoch is the local one; when a check fails
\* the result is an error, nothing is retrieved and no RecoveryData is
\* produced.
C18_RecoveryChecks ==
    last.event # "none" =>
        LET r == last.result
        IN  /\ HasOp(r.log, "fast_forward_sync") <=> C18_Passed
            /\ \A i \in DOMAIN r.log :
                   r.log[i].commit_round = last.si.hcc /\ r.log[i].peer = last.peer
            /\ ~C18_Passed =>
                   r.err # None /\ r.log = <<>> /\ r.data = NoRecoveryData
            /\ r.data # NoRecoveryData => r.err = None /\ C18_Passed
\* A sync info of another epoch, valid and above the committed round, was
\* refused.
C18_Witness ==
    /\ last.event = "VoteMsg" /\ last.result.err = "different_epoch"
    /\ last.si.valid /\ HighestRound(last.si) > rm.last_committed_round

\* The leader of round r has broadcast its proposal.
C19_Proposed(r) == \E b \in rm[LeaderFor(r)].proposed : b.round = r
\* Every replica has reached round r.
C19_AllReached(r) == \A a \in Authors : rm[a].cur >= r
\* The leader of round r + 1 has aggregated the quorum certificate of round r.
C19_Aggregated(r) ==
    \E i \in DOMAIN last[LeaderFor(r + 1)] :
        /\ last[LeaderFor(r + 1)][i].op = "insert_vote"
        /\ last[LeaderFor(r + 1)][i].result = "NewQuorumCertificate"
        /\ last[LeaderFor(r + 1)][i].vote.block.round = r
\* Every round after the first starts with the reason QCReady, and its
\* leader starts it in the handler in which it aggregated the quorum
\* certificate from the votes.
C19_QCReady ==
    \A a \in Authors : \A i \in DOMAIN last[a] :
        (last[a][i].op = "new_round" /\ last[a][i].round > FirstRound) =>
            /\ last[a][i].reason = "QCReady"
            /\ a = LeaderFor(last[a][i].round) =>
                   /\ i > 1
                   /\ last[a][i - 1].op = "insert_vote"
                   /\ last[a][i - 1].result = "NewQuorumCertificate"
                   /\ last[a][i - 1].vote.block.round + 1 = last[a][i].round
\* C19: happy path liveness.  With four honest validators, every message
\* delivered and handled and no timer expiring, once the leader of a round r
\* has proposed, every replica eventually reaches round r + 1; the leader of
\* r + 1 aggregates the quorum certificate and starts r + 1 with QCReady.
C19_HappyPath ==
    /\ []C19_QCReady
    /\ \A r \in 1..MaxRound :
           C19_Proposed(r) ~> (C19_Aggregated(r) /\ C19_AllReached(r + 1))
\* Every replica is in round MaxRound + 1, and its leader has aggregated
\* the certificate of round MaxRound.
C19_Witness ==
    /\ C19_Proposed(MaxRound)
    /\ C19_Aggregated(MaxRound)
    /\ C19_AllReached(MaxRound + 1)

\* The honest validators of the round with the silent leader.
Honest == Authors \ TimeoutNet.silent
\* The validators whose timeout signature for round r replica a holds.
C20_TimeoutSigners(a, r) ==
    {v.author : v \in {w \in rm[a].pending : w.block.round = r /\ w.timeout}}
\* The timeout votes for round r that replica a has broadcast.
C20_Broadcast(a, r) ==
    {last[a][i].vote : i \in {j \in DOMAIN last[a] :
        /\ last[a][j].op = "broadcast_vote"
        /\ last[a][j].vote.timeout
        /\ last[a][j].vote.block.round = r}}
\* The timer of an honest replica in round FirstRound expires: the handler
\* succeeds and broadcasts one timeout vote for the round, to every validator.
C20_TimerBroadcasts ==
    \A a \in Honest :
        (rm[a].cur = FirstRound /\ ~rm[a].vote_sent.timeout) =>
            LET r == RM_ProcessLocalTimeout(rm[a], rm[a].cur, None)
                sent == {e \in {r.st.log[i] : i \in DOMAIN r.st.log} :
                            e.op = "broadcast_vote"}
            IN  /\ r.ok
                /\ Cardinality(sent) = 1
                /\ \A e \in sent :
                       /\ e.vote.author = a /\ e.vote.timeout
                       /\ e.vote.block.round = FirstRound
                       /\ {m.to : m \in MessagesOf(a, a, e, BS_SyncInfo(r.st))} = Authors
\* A replica is in round FirstRound while it holds fewer than 2f+1 timeout
\* signatures, and in round FirstRound + 1 once a handler of its own has
\* formed the certificate from the 2f+1 signatures and started the round.
C20_Certificate ==
    \A a \in Honest :
        /\ rm[a].cur \in {FirstRound, FirstRound + 1}
        /\ rm[a].cur = FirstRound =>
               Cardinality(C20_TimeoutSigners(a, FirstRound)) < QuorumSize
        /\ rm[a].cur = FirstRound + 1 =>
               /\ Max(rm[a].hqc.round, rm[a].htc) = FirstRound
               /\ \E i \in DOMAIN last[a] :
                      /\ i < Len(last[a])
                      /\ last[a][i].op = "insert_vote"
                      /\ last[a][i].result \in {"NewQuorumCertificate", "NewTimeoutCertificate"}
                      /\ last[a][i].vote.timeout
                      /\ last[a][i].vote.block.round = FirstRound
                      /\ last[a][i + 1].op = "new_round"
                      /\ last[a][i + 1].round = FirstRound + 1
\* No validator has voted for two blocks of one round: not in what its
\* safety rules have signed, not in the votes in flight, not in the votes
\* the others hold.
C20_NoDoubleVote ==
    /\ \A a \in Authors : \A x, y \in rm[a].signed : x.round = y.round => x.block = y.block
    /\ \A m, n \in env :
           (m.author = n.author /\ m.vote.block.round = n.vote.block.round) =>
               m.vote.block = n.vote.block
    /\ \A a, b \in Authors : \A v \in rm[a].pending : \A w \in rm[b].pending :
           (v.author = w.author /\ v.block.round = w.block.round) => v.block = w.block
    /\ \A a \in Authors : Cardinality({v.block : v \in C20_Broadcast(a, FirstRound)}) <= 1
\* Every honest replica is in round FirstRound + 1.
C20_AllAdvanced == \A a \in Honest : rm[a].cur = FirstRound + 1
\* C20: timeout liveness.  With the leader of the round silent, the timer of
\* each honest replica makes it broadcast a timeout vote for the round; a
\* replica that holds the timeout signatures of 2f+1 validators forms a
\* certificate and moves to the next round; eventually every honest replica
\* is in the next round and stays there; no validator has voted for two
\* blocks of the round.
C20_TimeoutPath ==
    /\ [](\A m \in env : m.kind = "vote")
    /\ []C20_TimerBroadcasts
    /\ []C20_Certificate
    /\ []C20_NoDoubleVote
    /\ <>[]C20_AllAdvanced
\* Every honest replica has broadcast its timeout vote and is in the next
\* round; the silent leader is where it started.
C20_Witness ==
    /\ C20_AllAdvanced
    /\ \A a \in Honest : C20_Broadcast(a, FirstRound) # {}
    /\ \A a \in TimeoutNet.silent : rm[a].cur = FirstRound /\ last[a] = History(Started(a).st.log)


\* The pointers of the transactions of a block, in order.
Pointers(block) == [i \in DOMAIN block |-> TxnPointer(block[i])]
\* (a, s - 1) is among the pointers ptrs.
C21_Predecessor(ptr, ptrs) == ptr[2] > 0 /\ <<ptr[1], ptr[2] - 1>> \in ptrs
\* C21: for every batch_size and seen set, get_block returns a transaction
\* (a, s) only if s is the cached sequence number of a, or (a, s - 1) is
\* earlier in the result, or (a, s - 1) is in the caller's seen set.
C21_PredecessorKnown ==
    \A batch_size \in 0..MaxBatch, seen \in PoolSeenSets :
        LET ptrs == Pointers(Mempool_GetBlock(rm, batch_size, seen).block)
        IN  \A i \in DOMAIN ptrs :
                \/ TtlCache_Get(rm.sequence_number_cache, ptrs[i][1]) = {ptrs[i][2]}
                \/ C21_Predecessor(ptrs[i], {ptrs[j] : j \in 1..(i - 1)})
                \/ C21_Predecessor(ptrs[i], seen)
\* get_block has returned two transactions, and the pool holds a transaction
\* above the cached sequence number of its account whose predecessor is
\* not in the pool: get_block with no seen set leaves it out.
C21_Witness ==
    /\ last.op = "get_block" /\ last.size = 2
    /\ \E i \in DOMAIN rm.transactions :
           LET t == rm.transactions[i]
           IN  /\ t.sequence_number > 0
               /\ TtlCache_Get(rm.sequence_number_cache, t.address) = {t.sequence_number - 1}
               /\ TransactionStore_Get(rm.transactions,
                                       <<t.address, t.sequence_number - 1>>) = {}
               /\ \A batch_size \in 0..MaxBatch :
                      \A j \in DOMAIN Mempool_GetBlock(rm, batch_size, {}).block :
                          Mempool_GetBlock(rm, batch_size, {}).block[j] # t


\* C22: for every batch_size and seen set, the result of get_block holds no
\* (account, sequence number) of the caller's seen set, and none twice.
C22_NoDuplication ==
    \A batch_size \in 0..MaxBatch, seen \in PoolSeenSets :
        LET ptrs == Pointers(Mempool_GetBlock(rm, batch_size, seen).block)
        IN  /\ \A i \in DOMAIN ptrs : ptrs[i] \notin seen
            /\ \A i, j \in DOMAIN ptrs : ptrs[i] = ptrs[j] => i = j
\* get_block has returned a transaction; the pool holds the next transaction
\* of an account, and get_block leaves it out for a caller that has seen it
\* while it returns the one after it.
C22_Witness ==
    /\ last.op = "get_block" /\ last.size > 0
    /\ \E seen \in PoolSeenSets : \E ptr \in seen :
           LET ptrs == Pointers(Mempool_GetBlock(rm, MaxBatch, seen).block)
           IN  /\ TransactionStore_Get(rm.transactions, ptr) # {}
               /\ TtlCache_Get(rm.sequence_number_cache, ptr[1]) = {ptr[2]}
               /\ \E i \in DOMAIN ptrs : ptrs[i] = <<ptr[1], ptr[2] + 1>>


C24_CurrentSeq(sender, db_sequence_number) ==
    LET cached_seq == TtlCache_Get(rm.sequence_number_cache, sender)
    IN  IF cached_seq = {} THEN db_sequence_number
        ELSE CHOOSE m \in cached_seq \cup {db_sequence_number} :
                 \A n \in cached_seq \cup {db_sequence_number} : m >= n
\* C24: add_txn answers InvalidSeqNumber exactly when the sequence number of
\* the transaction is below max(cached_seq[sender], db_sequence_number); the
\* transaction store is then unchanged; otherwise the transaction goes to
\* the store's insert, whose outcome is the outcome of add_txn.
C24_RejectsOldSeq ==
    \A txn \in Txns, db_sequence_number \in DbSeqNumbers, evicts \in BOOLEAN :
        LET r == Mempool_AddTxn(rm, txn, db_sequence_number, evicts)
            old == txn.sequence_number < C24_CurrentSeq(txn.address, db_sequence_number)
            ins == TransactionStore_Insert(rm.transactions, txn, evicts)
        IN  /\ r.status = "InvalidSeqNumber" <=> old
            /\ old => ~r.inserted /\ r.mp.transactions = rm.transactions
            /\ ~old => /\ r.inserted
                       /\ r.status = ins.status
                       /\ r.mp.transactions = ins.transactions
\* add_txn has rejected a transaction, the pool is not empty, and some
\* transaction is below the cached sequence number of its sender but not
\* below the database's.
C24_Witness ==
    /\ last.op = "add_txn" /\ last.status = "InvalidSeqNumber"
    /\ rm.transactions # <<>>
    /\ \E txn \in Txns :
           /\ txn.sequence_number < C24_CurrentSeq(txn.address, 0)
           /\ Mempool_AddTxn(rm, txn, 0, FALSE).status = "InvalidSeqNumber"


\* The transactions of the accounts other than account, in queue order.
OfOthers(transactions, account) == SelectSeq(transactions, LAMBDA t : t.address # account)
\* The account whose cache entry an insert for account displaces: the one
\* of the oldest entry, when account has no entry and the cache is full.
C25_Displaced(account) ==
    IF /\ TtlCache_Get(rm.sequence_number_cache, account) = {}
       /\ Len(rm.sequence_number_cache) >= Capacity
    THEN {rm.sequence_number_cache[1].key} ELSE {}
\* What remove_transaction(account, seq, false) does to the account itself
\* and to the transactions of the others.
C25_Committed(mp, account, seq) ==
    /\ TtlCache_Get(mp.sequence_number_cache, account)
           = {Max(UnwrapOrDefault(TtlCache_Get(rm.sequence_number_cache, account)), seq + 1)}
    /\ \A i \in DOMAIN mp.transactions :
           mp.transactions[i].address = account => mp.transactions[i].sequence_number > seq
    /\ OfOthers(mp.transactions, account) = OfOthers(rm.transactions, account)
\* C25 as stated: remove_transaction(account, seq, false) sets the cached
\* sequence number of the account to max(previous or 0, seq + 1), drops its
\* transactions up to seq, and leaves the transactions and the cached
\* sequence numbers of the other accounts unchanged.
C25_CommitLeavesOthers ==
    \A account \in Accounts, seq \in SeqNumbers :
        LET mp == Mempool_RemoveTransaction(rm, account, seq, FALSE)
        IN  /\ C25_Committed(mp, account, seq)
            /\ \A other \in Accounts \ {account} :
                   TtlCache_Get(mp.sequence_number_cache, other)
                       = TtlCache_Get(rm.sequence_number_cache, other)
\* C25, amended: as stated, except that when the account has no cache entry
\* and the cache is full, the oldest entry, of another account, is displaced;
\* the cached sequence numbers of the remaining accounts are unchanged.
C25_CommitAdvances ==
    \A account \in Accounts, seq \in SeqNumbers :
        LET mp == Mempool_RemoveTransaction(rm, account, seq, FALSE)
        IN  /\ C25_Committed(mp, account, seq)
            /\ \A other \in Accounts \ {account} :
                   TtlCache_Get(mp.sequence_number_cache, other)
                       = IF other \in C25_Displaced(account) THEN {}
                         ELSE TtlCache_Get(rm.sequence_number_cache, other)
\* A commit has raised the cached sequence number of an account whose later
\* transaction stays in the pool, next to a transaction of another account.
C25_Witness ==
    /\ last.op = "commit"
    /\ \E i, j \in DOMAIN rm.transactions :
           /\ rm.transactions[i].address # rm.transactions[j].address
           /\ rm.transactions[i].sequence_number > last.arg
           /\ TtlCache_Get(rm.sequence_number_cache, rm.transactions[i].address)
                  = {last.arg + 1}


\* No transaction of the account from seq on is in the queue.
C26_Dropped(transactions, account, seq) ==
    \A i \in DOMAIN transactions :
        transactions[i].address = account => transactions[i].sequence_number < seq
\* C26 as stated: for every seq and every prior cached sequence number,
\* remove_transaction(account, seq, true) drops (account, seq) and the later
\* transactions of the account, and leaves those of other accounts unchanged.
C26_RejectDropsLater ==
    \A account \in Accounts, seq \in SeqNumbers :
        LET mp == Mempool_RemoveTransaction(rm, account, seq, TRUE)
        IN  /\ C26_Dropped(mp.transactions, account, seq)
            /\ OfOthers(mp.transactions, account) = OfOthers(rm.transactions, account)
\* C26, amended: remove_transaction(account, seq, true) drops (account, seq)
\* and the later transactions of the account when seq is at least the cached
\* sequence number of the account (0 without an entry); below it, it drops
\* nothing.  The transactions of other accounts are unchanged in both cases.
C26_RejectDropsFromCached ==
    \A account \in Accounts, seq \in SeqNumbers :
        LET mp == Mempool_RemoveTransaction(rm, account, seq, TRUE)
            cached_seq == UnwrapOrDefault(TtlCache_Get(rm.sequence_number_cache, account))
        IN  /\ seq >= cached_seq => C26_Dropped(mp.transactions, account, seq)
            /\ seq < cached_seq => mp.transactions = rm.transactions
            /\ OfOthers(mp.transactions, account) = OfOthers(rm.transactions, account)
\* A rejection has left the pool with a transaction above the rejected
\* sequence number: a rejection of that account at that number, below its
\* cached sequence number, drops nothing.
C26_Witness ==
    /\ last.op = "reject"
    /\ \E i \in DOMAIN rm.transactions :
           LET t == rm.transactions[i]
           IN  /\ t.sequence_number >= last.arg
               /\ UnwrapOrDefault(TtlCache_Get(rm.sequence_number_cache, t.address))
                      > last.arg
               /\ Mempool_RemoveTransaction(rm, t.address, last.arg, TRUE).transactions
                      = rm.transactions


\* C27: with an empty seen set and every batch_size, the k-th transaction of
\* an account in the result of get_block has the cached sequence number of
\* the account plus k - 1: the transactions of an account are a run of
\* consecutive sequence numbers from the cached one on, in increasing order,
\* wherever gas prices put them in the priority queue.
C27_ConsecutiveRuns ==
    \A batch_size \in 0..MaxBatch :
        LET ptrs == Pointers(Mempool_GetBlock(rm, batch_size, {}).block)
        IN  \A i \in DOMAIN ptrs :
                TtlCache_Get(rm.sequence_number_cache, ptrs[i][1])
                    = {ptrs[i][2] - Cardinality({j \in 1..(i - 1) : ptrs[j][1] = ptrs[i][1]})}
\* get_block has returned two transactions or more from a pool in which a
\* transaction with a higher gas price stands before its predecessor in the
\* priority queue; with no seen set the predecessor is returned first.
C27_Witness ==
    /\ last.op = "get_block" /\ last.size >= 2
    /\ \E i, j \in DOMAIN rm.transactions :
           LET later == rm.transactions[i]
               first == rm.transactions[j]
               block == Mempool_GetBlock(rm, MaxBatch, {}).block
           IN  /\ i < j /\ later.gas > first.gas
               /\ later.address = first.address
               /\ later.sequence_number = first.sequence_number + 1
               /\ \E k \in DOMAIN block :
                      k < Len(block) /\ block[k] = first /\ block[k + 1] = later


C29_NoVote(st, r) ==
    /\ ~r.ok
    /\ ~HasOp(r.st.log, "sign_vote") /\ ~HasOp(r.st.log, "save_vote")
    /\ ~HasOp(r.st.log, "record_vote") /\ Sends(r.st.log) = {}
    /\ r.st.saved = st.saved /\ r.st.vote_sent = st.vote_sent /\ r.st.signed = st.signed
\* C29: a regular vote for a proposed block is signed only when the round
\* of the block is the current round after sync_up and again after the
\* block's execution.  A proposal whose round is not the current round after
\* sync_up is rejected there, and a block whose round is not the current
\* round is rejected by execute_and_vote, in both cases without a vote
\* signed, saved, recorded or sent.
C29_VoteInCurrentRound ==
    /\ \A msg \in ProposalMsgs(rm), fault \in ProposalFaults :
          LET s == RM_SyncUp(rm, msg.si, TRUE, fault)
              p == RM_PreProcessProposal(rm, msg, fault)
              r == RM_ProcessProposalMsg(rm, msg, fault)
          IN  /\ HasOp(r.st.log, "sign_vote") =>
                     /\ p.ok /\ s.ok /\ msg.block.round = s.st.cur
                     /\ \A i \in DOMAIN r.st.log :
                            r.st.log[i].op = "sign_vote" =>
                                /\ r.st.log[i].vote.block = msg.block
                                /\ ~r.st.log[i].vote.timeout
                                /\ r.st.log[i].cur = msg.block.round
              /\ (/\ msg.block.round >= rm.cur /\ IsValidProposal(msg)
                  /\ s.ok /\ msg.block.round # s.st.cur) =>
                     /\ r.err = "round_after_sync"
                     /\ C29_NoVote(s.st, r)
    /\ \A block \in VoteBlocks, fault \in ProposalFaults :
          block.round # rm.cur =>
              /\ ~RM_ExecuteAndVote(rm, block, fault).ok
              /\ C29_NoVote(rm, RM_ProcessProposedBlock(rm, block, fault))
\* A proposal was rejected because sync_up to its sync info had moved the
\* replica past the proposal's round, and the replica has not voted in the
\* round it is in.
C29_Witness ==
    /\ last.err = "round_after_sync" /\ rm.vote_sent = NoVote
    /\ rm.cur > 1 /\ env.faults = 0


\* C30: add_vote on a vote, regular or timeout, whose block has a quorum
\* certificate in the block store returns Ok and changes nothing: the vote
\* is not inserted into the pending votes, no certificate is formed or
\* stored and the current round stays.  So does process_vote once sync_up
\* has succeeded.
C30_CertifiedBlockIgnored ==
    /\ \A vote \in Votes(rm), fault \in VoteFaults :
          BS_GetQuorumCertForBlock(rm, vote.block) =>
              LET r == RM_AddVote(rm, vote, fault)
              IN  /\ r.ok /\ r.st = rm
                  /\ ~HasOp(r.st.log, "insert_vote")
    /\ \A msg \in VoteMsgs(rm), fault \in VoteFaults :
          LET s == RM_SyncUp(rm, msg.si, TRUE, fault)
              r == RM_ProcessVote(rm, msg, fault)
          IN  (/\ msg.vote.timeout \/ IsValidProposer(rm.author, msg.vote.block.round + 1)
               /\ s.ok /\ BS_GetQuorumCertForBlock(s.st, msg.vote.block)) =>
                  /\ r.ok /\ r.st = s.st
                  /\ r.st.pending = s.st.pending /\ r.st.cur = s.st.cur
                  /\ r.st.qcs = s.st.qcs /\ r.st.htc = s.st.htc
                  /\ ~HasOp(r.st.log, "insert_vote")
\* The block store holds a quorum certificate for a block for which the
\* environment sends a timeout vote that the pending votes would take.
C30_Witness ==
    /\ last.err = None
    /\ \E vote \in Votes(rm) :
           /\ vote.timeout /\ BS_GetQuorumCertForBlock(rm, vote.block)
           /\ RS_InsertVote(rm, vote).st # rm
           /\ RM_AddVote(rm, vote, None).st = rm


\* The cached sequence number of an account, 0 without an entry, as
\* remove_transaction reads it.
CachedSeq(mp, account) == UnwrapOrDefault(TtlCache_Get(mp.sequence_number_cache, account))
\* No cached sequence number is lower in mp than in the current mempool.
C31_NotLower(mp) == \A account \in Accounts : CachedSeq(mp, account) >= CachedSeq(rm, account)
\* C31 as stated: no add_txn and no remove_transaction lowers the cached
\* sequence number of an account.
C31_CachedSeqMonotone ==
    /\ \A txn \in Txns, db_sequence_number \in DbSeqNumbers, evicts \in BOOLEAN :
           C31_NotLower(Mempool_AddTxn(rm, txn, db_sequence_number, evicts).mp)
    /\ \A sender \in Accounts, seq \in SeqNumbers, is_rejected \in BOOLEAN :
           C31_NotLower(Mempool_RemoveTransaction(rm, sender, seq, is_rejected))
\* The cache entries of mp follow those of the current mempool after a call
\* for sender: an entry that is kept has not gone down, and the only entry
\* that can be missing is the one an insert for sender displaces.
C31_KeptNotLower(mp, sender) ==
    \A account \in Accounts :
        IF TtlCache_Get(mp.sequence_number_cache, account) = {}
        THEN account \in C25_Displaced(sender)
                 \/ TtlCache_Get(rm.sequence_number_cache, account) = {}
        ELSE CachedSeq(mp, account) >= CachedSeq(rm, account)
\* C31, amended: add_txn and remove_transaction(.., false) leave the sender
\* with an entry and lower no cached sequence number that stays in the
\* cache; an entry leaves the cache when remove_transaction(.., true) is
\* called for its account, which removes it and changes no other, or when
\* an insert into the full cache displaces it.  While the sender has an
\* entry, add_txn admits no transaction below it; without one it admits
\* from the sequence number of the database on.
C31_CachedSeqWhileCached ==
    /\ \A txn \in Txns, db_sequence_number \in DbSeqNumbers, evicts \in BOOLEAN :
           LET r == Mempool_AddTxn(rm, txn, db_sequence_number, evicts)
           IN  /\ C31_KeptNotLower(r.mp, txn.address)
               /\ TtlCache_Get(r.mp.sequence_number_cache, txn.address) # {}
               /\ r.inserted => txn.sequence_number >= CachedSeq(rm, txn.address)
               /\ (TtlCache_Get(rm.sequence_number_cache, txn.address) = {}
                      /\ txn.sequence_number >= db_sequence_number) => r.inserted
    /\ \A sender \in Accounts, seq \in SeqNumbers :
           LET mp == Mempool_RemoveTransaction(rm, sender, seq, FALSE)
           IN  /\ C31_KeptNotLower(mp, sender)
               /\ TtlCache_Get(mp.sequence_number_cache, sender) # {}
    /\ \A sender \in Accounts, seq \in SeqNumbers :
           LET mp == Mempool_RemoveTransaction(rm, sender, seq, TRUE)
           IN  \A account \in Accounts :
                   TtlCache_Get(mp.sequence_number_cache, account)
                       = IF account = sender THEN {}
                         ELSE TtlCache_Get(rm.sequence_number_cache, account)
\* add_txn has rejected a transaction below the cached sequence number that
\* a commit has raised to MaxSeq + 1; a rejection for the account takes the
\* entry away, and add_txn then admits sequence number 0 of the account
\* when the database says 0.
C31_Witness ==
    /\ last.op = "add_txn" /\ last.status = "InvalidSeqNumber"
    /\ \E account \in Accounts :
           /\ CachedSeq(rm, account) = MaxSeq + 1
           /\ CachedSeq(Mempool_RemoveTransaction(rm, account, MaxSeq, TRUE), account) = 0
           /\ Mempool_AddTxn(Mempool_RemoveTransaction(rm, account, MaxSeq, TRUE),
                             [address |-> account, sequence_number |-> 0, gas |-> 1],
                             0, TRUE).inserted


\* C32 as stated: whenever fast_forward_sync is invoked, the round committed
\* by the commit certificate passed to it is above last_committed_round.
C32_CommitRoundAbove ==
    \A i \in DOMAIN last.result.log :
        last.result.log[i].op = "fast_forward_sync" =>
            last.result.log[i].commit_round > rm.last_committed_round
\* C32, amended: whenever fast_forward_sync is invoked, the highest round of
\* the sync info (of its highest quorum cert or timeout certificate) is
\* above last_committed_round; the commit certificate passed is the sync
\* info's highest commit cert, whose committed round is at most that highest
\* round and is not compared with last_committed_round.
C32_HighestRoundAbove ==
    \A i \in DOMAIN last.result.log :
        last.result.log[i].op = "fast_forward_sync" =>
            /\ HighestRound(last.si) > rm.last_committed_round
            /\ last.result.log[i].commit_round = last.si.hcc
            /\ last.si.hcc <= HighestRound(last.si)
\* fast_forward_sync was invoked, and returned RecoveryData, on a commit
\* certificate for a round that is not above last_committed_round.
C32_Witness ==
    /\ HasOp(last.result.log, "fast_forward_sync")
    /\ last.result.err = None
    /\ last.result.data.commit_round <= rm.last_committed_round
    /\ rm.last_committed_round > 0

=============================================================================
